---- MODULE Spec2Model ----
(***************************************************************************)
(* State-machine model of the arduino4iot device runtime: persistent       *)
(* values (IotPersistentValue, RTC RAM / NVRAM tiers), the escalating      *)
(* panic handler and the boot cycle of class Iot.                          *)
(*                                                                         *)
(* The specifications share the variables:                                 *)
(*   Spec    the boot cycle of the device (class Iot);                     *)
(*   SpecPV  stand-alone IotPersistentValue objects of every value type    *)
(*           and constructor shape, with resets of their backing stores;   *)
(*   SpecCfg the configuration registry (IotConfig, IotConfigValue);       *)
(*   SpecRun the services of class Iot within a boot cycle: panic and its  *)
(*           handlers, the logger, the battery measurement, the clock and  *)
(*           the reset cause;                                              *)
(*   SpecApi the tokens of class IotApi, provisioning and the firmware     *)
(*           update;                                                       *)
(*   SpecTask the main task with its polling loops and NVRAM sessions and  *)
(*           the SNTP task with its callback; SpecTaskLive adds the        *)
(*           scheduling of the main task.                                  *)
(***************************************************************************)
EXTENDS Integers, Sequences, FiniteSets, TLC

\* ---------------------------------------------------------------------------
\* Bounds of the model
\* ---------------------------------------------------------------------------
MaxBoots == 4
MaxFields == 3
MillisBits == 16
ImageChunks == 2

\* ---------------------------------------------------------------------------
\* Program constants
\* ---------------------------------------------------------------------------
PanicSleepInitDefault == 60
PanicSleepMaxDefault == 86400
PanicSleepFactorDefault == 2
SleepDurationDefault == 300
BatteryMinDefault == -1
BatteryPin == 34
BatteryFactor == 2
BatteryDivider == 1
BatteryOffset_mV == 0
RtcImageValue == 0
ImplausibleTimeThreshold == 1261440000
NtpResyncIntervalDefault == 86400
PollDelay_ms == 50

VARIABLES
    \* ---- device (Spec) ----
    rtcBootCount,              \* RTC_DATA_ATTR int32_t rtcBootCount
    rtcLastSleepDuration_s,    \* RTC_DATA_ATTR int32_t rtcLastSleepDuration_s
    rtcPanicSleepDuration_s,   \* RTC_DATA_ATTR int32_t rtcPanicSleepDuration_s
    bootCount,                 \* Iot::_bootCount            (IotPersistentValue<int32_t>)
    lastSleepDuration_s,       \* Iot::_lastSleepDuration_s  (IotPersistentValue<int32_t>)
    panicSleepDuration_s,      \* Iot::_panicSleepDuration_s (IotPersistentValue<int32_t>)
    panicSleepDurationInit_s,  \* Iot::_panicSleepDurationInit_s (IotConfigValue<int>)
    panicSleepDurationMax_s,   \* Iot::_panicSleepDurationMax_s  (IotConfigValue<int>)
    panicSleepDurationFactor,  \* Iot::_panicSleepDurationFactor (IotConfigValue<int>)
    sleepDuration_s,           \* Iot::_sleepDuration_s          (IotConfigValue<int>)
    configNvram,               \* NVRAM namespace of the configuration: key -> entry
    pc,                        \* position in the boot cycle
    cycleEnd,                  \* the hardware action that ended the last boot cycle
    batteryMin_mV,             \* Iot::_batteryMin_mV           (IotConfigValue<int>)
    battery_mV,                \* Iot::_battery_mV, the cached battery voltage
    telemetry,                 \* boot_count of the last system telemetry posted, -1 if none
    apiBegun,                  \* history: begin() reached api.setDeviceName / api.begin
                               \* in this boot cycle
    episode,                   \* history: the durations the panic handler persisted since
                               \* the last clean cycle end or power-on, oldest first
    boots,                     \* history: number of boots so far
    retained,                  \* history: number of boots in a row, this one included,
                               \* since RTC RAM was last reloaded from the image
    flashForced,               \* history: "forced" once begin(false) ran in this boot
                               \* cycle, "written" when the panic handler then persisted
                               \* a duration, "reloaded" when begin(false) ran again
                               \* after the restart that followed, "no" otherwise
    \* ---- stand-alone persistent values (SpecPV) ----
    cell,                      \* the persistent value under test: type and constructor arguments
    nvram,                     \* NVRAM: the entry stored under the cell's (section, key)
    rtcmem,                    \* RTC RAM: the variable behind the cell's rtcPtr
    pv,                        \* the IotPersistentValue object
    alive,                     \* TRUE while the object exists (constructed in this boot)
    ops,                       \* history: the set() calls made in a row, newest last (at most 2)
    expect,                    \* history: the last set(v), its tier, and whether a reset
                               \* that kept the tier's backing store followed it
    pristine,                  \* history: no set() since the object was constructed
    nvramAtBoot                \* history: the NVRAM entry when the boot cycle started

devVars == <<rtcBootCount, rtcLastSleepDuration_s, rtcPanicSleepDuration_s,
             bootCount, lastSleepDuration_s, panicSleepDuration_s,
             panicSleepDurationInit_s, panicSleepDurationMax_s,
             panicSleepDurationFactor, sleepDuration_s, configNvram,
             batteryMin_mV, battery_mV,
             pc, cycleEnd, telemetry, apiBegun, episode, boots, retained,
             flashForced>>

pvVars == <<cell, nvram, rtcmem, pv, alive, ops, expect, pristine, nvramAtBoot>>

VARIABLES
    \* ---- configuration registry (SpecCfg) ----
    app,                       \* the config values the application declares, in order
    made,                      \* how many of them have been constructed
    cfgBegun,                  \* IotConfig::begin() was called (_nvramSection etc. non-null)
    configMap,                 \* IotConfig::_configMap: config key -> cell
    cfgCells,                  \* the IotConfigValue objects
    cfgPrefs,                  \* NVRAM namespace of the registry: key -> entry
    last                       \* history: the last begin() / updateConfig() call, the
                               \* state it found and what it did

cfgVars == <<app, made, cfgBegun, configMap, cfgCells, cfgPrefs, last>>

VARIABLES
    \* ---- services within a boot cycle (SpecRun) ----
    resetReason,               \* esp_reset_reason() of this boot
    panicHandler,              \* Iot::_panicHandler
    handlerSet,                \* history: the handler last passed to setPanicHandler in
                               \* this boot cycle, "none" if there was no call
    wifi,                      \* WiFi.status() == WL_CONNECTED
    logLevel,                  \* IotLogger::_logLevel
    millis,                    \* the clock millis() reads
    bootTimestamp_ms,          \* Iot::_bootTimestamp_ms
    sinceBoot_ms,              \* history: time elapsed since the constructor ran
    activeDuration_ms,         \* Iot::_activeDuration_ms (IotPersistentValue<int64_t>)
    rtcActiveDuration_ms,      \* RTC_DATA_ATTR int64_t rtcActiveDuration_ms
    adcReads,                  \* history: analogReadMilliVolts calls in this boot cycle
    call                       \* history: the call of panic, panicEarly, deepSleep,
                               \* restart, shutdown or getBatteryVoltage_mV made in the
                               \* last step, what it did in order, and whether it
                               \* returned to its caller; NoCall after any other step

runVars == <<resetReason, panicHandler, handlerSet, wifi, logLevel, millis,
             bootTimestamp_ms, sinceBoot_ms, activeDuration_ms, rtcActiveDuration_ms,
             adcReads, call>>

VARIABLES
    \* ---- API (SpecApi) ----
    provisioningToken,         \* IotApi::_provisioningToken
    deviceToken,               \* IotApi::_deviceToken
    apiPrefs,                  \* NVRAM namespace "iot": key -> entry
    apiLoaded,                 \* history: IotApi::begin() ran in this boot cycle
    image,                     \* the firmware image the server offers
    held,                      \* history: the image last downloaded with success
    apiCall,                   \* history: the call made in the last step, the state it
                               \* found and what it did; NoApiCall after any other step
    got                        \* history: what getFirmwareHttpEtag / getFirmwareHttpDate
                               \* returned in the last step; NoGot after any other step

apiVars == <<provisioningToken, deviceToken, apiPrefs, apiLoaded, image, held, apiCall, got>>

VARIABLES
    \* ---- main task and SNTP task (SpecTask) ----
    task,                      \* the operation the main task is in and its locals
    sessions,                  \* the Preferences sessions that are open, in order
    peakOpen,                  \* history: the most sessions open at once in the last step
    sntp,                      \* SNTP: started, and esp_sntp_get_sync_status()
    sysTime,                   \* what time(nullptr) reads
    ntpLastSyncTime,           \* Iot::_ntpLastSyncTime (IotPersistentValue<int64_t>)
    done,                      \* history: the operation that returned in the last step,
                               \* its value and what held then; NoDone after other steps
    cbRan                      \* history: the last step was the SNTP callback

taskVars == <<task, sessions, peakOpen, sntp, sysTime, ntpLastSyncTime, done, cbRan>>

vars == <<devVars, pvVars, cfgVars, runVars, apiVars, taskVars>>

\* ---------------------------------------------------------------------------
\* NVRAM (Preferences): typed entries under a key
\* ---------------------------------------------------------------------------
\* An NVS entry carries the type it was written with; a typed getter returns
\* its default argument when the key is absent or holds another type.
NoEntry == [t |-> "none", i |-> 0, s |-> ""]

NvsType(T) ==
    CASE T = "int32" -> "i32"
      [] T = "bool" -> "u8"
      [] T = "string" -> "str"

isKey(e) == e.t # "none"

\* Preferences::putInt / putBool / putString
PrefPut(T, v) ==
    CASE T = "int32" -> [t |-> "i32", i |-> v, s |-> ""]
      [] T = "bool" -> [t |-> "u8", i |-> (IF v THEN 1 ELSE 0), s |-> ""]
      [] T = "string" -> [t |-> "str", i |-> 0, s |-> v]

\* Preferences::getInt / getBool / getString (key, defaultValue)
PrefGet(T, e, defaultValue) ==
    IF e.t # NvsType(T) THEN defaultValue
    ELSE CASE T = "int32" -> e.i
           [] T = "bool" -> (e.i # 0)
           [] T = "string" -> e.s

\* ---------------------------------------------------------------------------
\* IotPersistentValue<T>
\* ---------------------------------------------------------------------------
\* An object: storageType, whether section / key / rtcPtr are non-null, the
\* value type T and the cached _value.

\* IotPersistentValue<T>::readFromNvram
readFromNvram(p, e) == [p EXCEPT !.value = PrefGet(p.T, e, p.value)]

\* IotPersistentValue<T>::writeToNvram: the entry stored under the key
writeToNvram(p) == PrefPut(p.T, p.value)

\* IotPersistentValue<T>::setStorage(storageType); rtcVal is *_rtcPtr and e the
\* NVRAM entry under (section, key)
setStorage(p, storageType, rtcVal, e) ==
    IF storageType = "RTC" /\ ~p.rtcPtr THEN p
    ELSE IF storageType = "NVRAM_IMPLICIT" /\ (~p.section \/ ~p.key) THEN p
    ELSE LET q == [p EXCEPT !.storageType = storageType] IN
         IF storageType = "RTC" THEN [q EXCEPT !.value = rtcVal]
         ELSE IF storageType = "NVRAM_IMPLICIT"
              THEN (IF isKey(e) THEN readFromNvram(q, e) ELSE q)
              ELSE q

\* IotPersistentValue<T>::IotPersistentValue(section, key, rtcPtr); uninit is
\* the content of the member _value, which no constructor initializes
IotPersistentValue(T, section, key, rtcPtr, uninit, rtcVal, e) ==
    LET st == IF rtcPtr THEN "RTC"
              ELSE IF section /\ key THEN "NVRAM_IMPLICIT"
              ELSE IF ~section /\ key THEN "NVRAM_EXPLICIT"
              ELSE "NONE"
        p == [storageType |-> st, section |-> section, key |-> key,
              rtcPtr |-> rtcPtr, T |-> T, value |-> uninit]
    IN setStorage(p, st, rtcVal, e)

\* IotPersistentValue<T>::get
get(p) == p.value

\* set() without the early return on an unchanged value
set_NoEqualityCheck(p, value) ==
    [p |-> [p EXCEPT !.value = value],
     rtcWrite |-> (p.storageType = "RTC"),
     nvWrite |-> (p.storageType = "NVRAM_IMPLICIT")]

\* IotPersistentValue<T>::set(value): the object afterwards, whether *_rtcPtr
\* was written, and whether the NVRAM entry was written
set(p, value) ==
    IF value = p.value
    THEN [p |-> p, rtcWrite |-> FALSE, nvWrite |-> FALSE]
    ELSE [p |-> [p EXCEPT !.value = value],
          rtcWrite |-> (p.storageType = "RTC"),
          nvWrite |-> (p.storageType = "NVRAM_IMPLICIT")]

\* the value behind rtcPtr after set(value)
RtcAfterSet(p, value, rtcVal) ==
    IF set(p, value).rtcWrite THEN value ELSE rtcVal

\* ---------------------------------------------------------------------------
\* class Iot: the persistent values of the runtime and their RTC memory
\* ---------------------------------------------------------------------------
\* m is the memory the operations below transform: the three persistent
\* value objects and the RTC variables behind their rtcPtr.
Mem == [bootCount |-> bootCount, rtcBootCount |-> rtcBootCount,
        lastSleepDuration_s |-> lastSleepDuration_s,
        rtcLastSleepDuration_s |-> rtcLastSleepDuration_s,
        panicSleepDuration_s |-> panicSleepDuration_s,
        rtcPanicSleepDuration_s |-> rtcPanicSleepDuration_s]

\* _bootCount = v
AssignBootCount(m, v) ==
    [m EXCEPT !.bootCount = set(m.bootCount, v).p,
              !.rtcBootCount = RtcAfterSet(m.bootCount, v, m.rtcBootCount)]

\* _lastSleepDuration_s = v
AssignLastSleepDuration(m, v) ==
    [m EXCEPT !.lastSleepDuration_s = set(m.lastSleepDuration_s, v).p,
              !.rtcLastSleepDuration_s =
                  RtcAfterSet(m.lastSleepDuration_s, v, m.rtcLastSleepDuration_s)]

\* _panicSleepDuration_s = v
AssignPanicSleepDuration(m, v) ==
    [m EXCEPT !.panicSleepDuration_s = set(m.panicSleepDuration_s, v).p,
              !.rtcPanicSleepDuration_s =
                  RtcAfterSet(m.panicSleepDuration_s, v, m.rtcPanicSleepDuration_s)]

\* a constructor that binds the persistent values and forgets the increment
IotCtor_NoIncrement(rtcB, rtcL, rtcP) ==
    [bootCount |-> IotPersistentValue("int32", FALSE, FALSE, TRUE, 0, rtcB, NoEntry),
     rtcBootCount |-> rtcB,
     lastSleepDuration_s |->
         IotPersistentValue("int32", FALSE, FALSE, TRUE, 0, rtcL, NoEntry),
     rtcLastSleepDuration_s |-> rtcL,
     panicSleepDuration_s |->
         IotPersistentValue("int32", FALSE, FALSE, TRUE, 0, rtcP, NoEntry),
     rtcPanicSleepDuration_s |-> rtcP]

\* Iot::Iot(): the member initializers bind every persistent value to its RTC
\* variable (rtcPtr constructor), then _bootCount = _bootCount + 1
IotCtor(rtcB, rtcL, rtcP) ==
    LET m0 == [bootCount |->
                   IotPersistentValue("int32", FALSE, FALSE, TRUE, 0, rtcB, NoEntry),
               rtcBootCount |-> rtcB,
               lastSleepDuration_s |->
                   IotPersistentValue("int32", FALSE, FALSE, TRUE, 0, rtcL, NoEntry),
               rtcLastSleepDuration_s |-> rtcL,
               panicSleepDuration_s |->
                   IotPersistentValue("int32", FALSE, FALSE, TRUE, 0, rtcP, NoEntry),
               rtcPanicSleepDuration_s |-> rtcP]
    IN AssignBootCount(m0, get(m0.bootCount) + 1)

\* Iot::getBootCount / getLastSleepDuration_s / getPanicSleepDuration_s
getBootCount(m) == get(m.bootCount)
getLastSleepDuration_s(m) == get(m.lastSleepDuration_s)
getPanicSleepDuration_s(m) == get(m.panicSleepDuration_s)

\* a cycle end that forgets to reset the panic sleep duration
ResetPanicUnlessPanic_Never(m, panic) == m

\* if (!panic) _panicSleepDuration_s = -1;   (deepSleep, restart, shutdown)
ResetPanicUnlessPanic(m, panic) ==
    IF ~panic THEN AssignPanicSleepDuration(m, -1) ELSE m

\* Iot::deepSleep(sleep_duration_s, panic): memory afterwards
deepSleep(m, sleep_duration_s, panic) ==
    AssignLastSleepDuration(ResetPanicUnlessPanic(m, panic), sleep_duration_s)

\* Iot::restart(panic): memory afterwards
restart(m, panic) ==
    AssignLastSleepDuration(ResetPanicUnlessPanic(m, panic), 0)

\* a shutdown that resets the panic sleep duration whatever the flag says
shutdown_AlwaysResets(m, panic) ==
    AssignLastSleepDuration(AssignPanicSleepDuration(m, -1), 0)

\* Iot::shutdown(panic): memory afterwards
shutdown(m, panic) ==
    AssignLastSleepDuration(ResetPanicUnlessPanic(m, panic), 0)

\* How a boot cycle ended: the hardware action (esp_restart, esp_deep_sleep
\* with its duration, esp_deep_sleep_start), and as history the panic flag of
\* the call, whether the panic handler made it, and the persisted panic
\* duration when the ending operation was entered.
EndBy(action, duration_s, panic, byHandler, before) ==
    [action |-> action, duration_s |-> duration_s, panic |-> panic,
     byHandler |-> byHandler, before |-> before]

NoEnd == EndBy("none", 0, FALSE, FALSE, 0)

\* a handler that sleeps for the initial duration at the first panic already
escalatingSleepPanicHandler_SleepFirst(m, init_s, factor, max_s) ==
    LET v == IF getPanicSleepDuration_s(m) <= 0
             THEN init_s
             ELSE getPanicSleepDuration_s(m) * factor
        m1 == AssignPanicSleepDuration(m, IF v > max_s THEN max_s ELSE v)
    IN [m |-> deepSleep(m1, getPanicSleepDuration_s(m1), TRUE),
        end |-> EndBy("esp_deep_sleep", getPanicSleepDuration_s(m1), TRUE, TRUE,
                      getPanicSleepDuration_s(m))]

\* Iot::escalatingSleepPanicHandler(): memory afterwards and the hardware
\* action it ends with
escalatingSleepPanicHandler(m, init_s, factor, max_s) ==
    IF getPanicSleepDuration_s(m) <= 0
    THEN LET m1 == AssignPanicSleepDuration(m, init_s)
         IN [m |-> restart(m1, TRUE),
             end |-> EndBy("esp_restart", 0, TRUE, TRUE, getPanicSleepDuration_s(m))]
    ELSE LET m1 == AssignPanicSleepDuration(m, getPanicSleepDuration_s(m) * factor)
             m2 == IF getPanicSleepDuration_s(m1) > max_s
                   THEN AssignPanicSleepDuration(m1, max_s)
                   ELSE m1
         IN [m |-> deepSleep(m2, getPanicSleepDuration_s(m2), TRUE),
             end |-> EndBy("esp_deep_sleep", getPanicSleepDuration_s(m2), TRUE, TRUE,
                           getPanicSleepDuration_s(m))]

\* Iot::getBatteryVoltage_mV(): the value returned, the cache afterwards and
\* whether the ADC was read; raw is what analogReadMilliVolts would return
getBatteryVoltage_mV(cache, raw) ==
    IF BatteryPin < 0 THEN [ret |-> -1, cache |-> cache, adc |-> FALSE]
    ELSE IF cache <= 0
         THEN LET voltage == ((raw * BatteryFactor) \div BatteryDivider) + BatteryOffset_mV
              IN [ret |-> voltage, cache |-> voltage, adc |-> TRUE]
         ELSE [ret |-> cache, cache |-> cache, adc |-> FALSE]

\* IotConfigValue<int32_t>::readFromNvram
configReadFromNvram(value, e) == PrefGet("int32", e, value)

\* ---------------------------------------------------------------------------
\* Inputs of the device model
\* ---------------------------------------------------------------------------
ConfigKeys == {"panicSlpInit", "panicSlpMax", "panicSlpFac", "sleepFor", "batMinMv"}
InitChoices == {60, 600}
MaxChoices == {500}
FactorChoices == {2, 3}
BatteryMinChoices == {3300}
RawChoices == {1550, 1700}
SleepChoices == {10}

\* what the configuration namespace of NVRAM may hold when the device boots
ConfigNvramChoices ==
    { [k \in ConfigKeys |->
          CASE k = "panicSlpInit" -> i
            [] k = "panicSlpMax" -> x
            [] k = "panicSlpFac" -> f
            [] k = "batMinMv" -> b
            [] OTHER -> NoEntry] :
        i \in {NoEntry} \cup {PrefPut("int32", v) : v \in InitChoices},
        x \in {NoEntry} \cup {PrefPut("int32", v) : v \in MaxChoices},
        f \in {NoEntry} \cup {PrefPut("int32", v) : v \in FactorChoices},
        b \in {NoEntry} \cup {PrefPut("int32", v) : v \in BatteryMinChoices} }

Running == {"constructed", "begun"}

\* the persistent values and RTC variables become those of m
Apply(m) ==
    /\ bootCount' = m.bootCount
    /\ rtcBootCount' = m.rtcBootCount
    /\ lastSleepDuration_s' = m.lastSleepDuration_s
    /\ rtcLastSleepDuration_s' = m.rtcLastSleepDuration_s
    /\ panicSleepDuration_s' = m.panicSleepDuration_s
    /\ rtcPanicSleepDuration_s' = m.rtcPanicSleepDuration_s

\* the rest of Iot::Iot(): configuration values at their defaults, caches reset
CtorDefaults ==
    /\ panicSleepDurationInit_s' = PanicSleepInitDefault
    /\ panicSleepDurationMax_s' = PanicSleepMaxDefault
    /\ panicSleepDurationFactor' = PanicSleepFactorDefault
    /\ sleepDuration_s' = SleepDurationDefault
    /\ batteryMin_mV' = BatteryMinDefault
    /\ battery_mV' = -1
    /\ apiBegun' = FALSE
    /\ pc' = "constructed"

\* ---------------------------------------------------------------------------
\* IotConfigValue<T> and IotConfig
\* ---------------------------------------------------------------------------
\* A JSON value of the downloaded document: its wire type and its content
JInt(i) == [w |-> "int", i |-> i, s |-> "", b |-> FALSE]
JBool(b) == [w |-> "bool", i |-> 0, s |-> "", b |-> b]
JStr(s) == [w |-> "string", i |-> 0, s |-> s, b |-> FALSE]
JFloat == [w |-> "float", i |-> 0, s |-> "", b |-> FALSE]
JArray == [w |-> "array", i |-> 0, s |-> "", b |-> FALSE]

\* a field (JsonPair) of the document
Field(key, value) == [key |-> key, value |-> value]

\* the config values an application declares: type, constructor value,
\* config key and NVRAM key. "A" uses the two-argument form (key, key), "A2"
\* registers under the config key of "A" with a storage key of its own.
CellIds == {"A", "A2", "B", "C"}
NoCell == "none"

CellDecl(id) ==
    CASE id = "A" -> [T |-> "int32", config_key |-> "a", nvram_key |-> "a", value |-> 7]
      [] id = "A2" -> [T |-> "int32", config_key |-> "a", nvram_key |-> "a2", value |-> 7]
      [] id = "B" -> [T |-> "string", config_key |-> "b", nvram_key |-> "nvB", value |-> "d"]
      [] id = "C" -> [T |-> "bool", config_key |-> "c", nvram_key |-> "nvC", value |-> FALSE]

RegKeys == {"a", "b", "c"}
NvramEtagKey == "iotCfgEtag"
NvramDateKey == "iotCfgDate"
CfgNvsKeys == {"a", "a2", "nvB", "nvC", NvramEtagKey, NvramDateKey}

\* IotConfigValue<T>::get
cfgGet(c) == c.value

\* IotConfigValue<T>::getNvramKey
getNvramKey(c) == c.nvram_key

\* IotConfigValue<T>::isInt32 / isBool / isString
isInt32(c) == c.T = "int32"
isBool(c) == c.T = "bool"
isString(c) == c.T = "string"

\* a publish step that reads the entry under the config key of the cell
cfgReadFromNvram_ConfigKey(c, prefs) ==
    [c EXCEPT !.value =
        PrefGet(c.T, IF c.config_key \in DOMAIN prefs THEN prefs[c.config_key] ELSE NoEntry,
                c.value)]

\* IotConfigValue<T>::readFromNvram(preferences) on the storage key
cfgReadFromNvram(c, prefs) ==
    [c EXCEPT !.value = PrefGet(c.T, prefs[getNvramKey(c)], c.value)]

\* IotConfig::registerConfigValuePtr keeping the first registration of a key
registerConfigValuePtr_KeepFirst(map, configKey, id) ==
    IF map[configKey] = NoCell THEN [map EXCEPT ![configKey] = id] ELSE map

\* IotConfig::registerConfigValuePtr: _configMap[configKey] = configValuePtr
registerConfigValuePtr(map, configKey, id) == [map EXCEPT ![configKey] = id]

\* the cells _configMap points to
Registered(map) == {map[k] : k \in RegKeys} \ {NoCell}

\* a begin() that leaves the values in memory as they are
readConfigFromPreferences_None(map, cs, prefs) == cs

\* IotConfig::readConfigFromPreferences and the publish loop of updateConfig:
\* every cell of the map reads its storage key
readConfigFromPreferences(map, cs, prefs) ==
    [id \in CellIds |->
        IF id \in Registered(map) THEN cfgReadFromNvram(cs[id], prefs) ELSE cs[id]]

\* a lookup that resolves an unregistered field name to the cell of "a"
configMapFind_Fallback(map, configKey) ==
    IF configKey \in RegKeys THEN map[configKey] ELSE map["a"]

\* _configMap.find(configKey): the registered cell, NoCell for end()
configMapFind(map, configKey) ==
    IF configKey \in RegKeys THEN map[configKey] ELSE NoCell

\* as<T>() without the is<T>() test: every value is taken as the cell's type
DecodedType_Coerce(v, c) == c.T

\* the type chain of updateConfig: is<int>() && isInt32(), is<bool>() &&
\* isBool(), is<String>() && isString(); "none" is the final else
DecodedType(v, c) ==
    IF v.w = "int" /\ isInt32(c) THEN "int32"
    ELSE IF v.w = "bool" /\ isBool(c) THEN "bool"
    ELSE IF v.w = "string" /\ isString(c) THEN "string"
    ELSE "none"

\* kv.value().as<int>() / as<bool>() / as<String>()
Decoded(T, v) ==
    CASE T = "int32" -> v.i
      [] T = "bool" -> v.b
      [] T = "string" -> v.s

\* the default of the one-argument getters getInt(key), getBool(key), getString(key)
PrefDefault(T) ==
    CASE T = "int32" -> 0
      [] T = "bool" -> FALSE
      [] T = "string" -> ""

\* a pass that writes every decoded field
NeedsWrite_Always(T, e, value) == TRUE

\* !preferences.isKey(nvramKey) || (value != preferences.getX(nvramKey))
NeedsWrite(T, e, value) == ~isKey(e) \/ value # PrefGet(T, e, PrefDefault(T))

\* one iteration of the loop over the document: acc is the open Preferences
\* namespace and the keys written so far, in order
storeField(kv, map, cs, acc) ==
    LET id == configMapFind(map, kv.key) IN
    IF id = NoCell THEN acc
    ELSE LET nvramKey == getNvramKey(cs[id])
             T == DecodedType(kv.value, cs[id])
         IN IF T = "none" THEN acc
            ELSE IF NeedsWrite(T, acc.prefs[nvramKey], Decoded(T, kv.value))
                 THEN [prefs |-> [acc.prefs EXCEPT
                                     ![nvramKey] = PrefPut(T, Decoded(T, kv.value))],
                       writes |-> Append(acc.writes, nvramKey)]
                 ELSE acc

\* for (JsonPair kv : doc.as<JsonObject>())
RECURSIVE storeConfig(_, _, _, _)
storeConfig(doc, map, cs, acc) ==
    IF doc = << >> THEN acc
    ELSE storeConfig(Tail(doc), map, cs, storeField(Head(doc), map, cs, acc))

\* the loop over responseHeader: "ETag" before "Last-Modified" (std::map
\* order); a header the response does not carry is not in the map
storeToken(resp, acc) ==
    LET a == IF resp.etag # ""
             THEN [prefs |-> [acc.prefs EXCEPT
                                 ![NvramEtagKey] = PrefPut("string", resp.etag)],
                   writes |-> Append(acc.writes, NvramEtagKey)]
             ELSE acc
    IN IF resp.date # ""
       THEN [prefs |-> [a.prefs EXCEPT ![NvramDateKey] = PrefPut("string", resp.date)],
             writes |-> Append(a.writes, NvramDateKey)]
       ELSE a

\* the request headers of the conditional GET
RequestHeader(prefs) ==
    [ifNoneMatch |-> PrefGet("string", prefs[NvramEtagKey], ""),
     ifModifiedSince |-> PrefGet("string", prefs[NvramDateKey], "")]

\* the outcome of a call: return value, NVRAM and cells afterwards, the keys
\* written in order, whether the request was sent and whether the body was
\* handed to the JSON decoder
Outcome(ret, prefs, cs, writes, requested, parsed) ==
    [ret |-> ret, prefs |-> prefs, cs |-> cs, writes |-> writes,
     requested |-> requested, parsed |-> parsed]

\* a status test that lets every status below 400 pass
StatusOk_Below400(httpStatusCode) == httpStatusCode >= 200 /\ httpStatusCode < 400

\* !(httpStatusCode < 200 || httpStatusCode >= 300)
StatusOk(httpStatusCode) == httpStatusCode >= 200 /\ httpStatusCode < 300

\* a pass that does not look at the DeserializationError
deserializeJson_Unchecked(resp) == TRUE

\* deserializeJson(doc, response) succeeded; a body that does not decode
\* leaves the document empty
deserializeJson(resp) == resp.json

\* a pass that persists the freshness token before the fields
updateConfig_TokenFirst(begun, map, cs, prefs, resp) ==
    IF ~begun THEN Outcome(FALSE, prefs, cs, << >>, FALSE, FALSE)
    ELSE IF ~StatusOk(resp.status) THEN Outcome(FALSE, prefs, cs, << >>, TRUE, FALSE)
    ELSE IF ~deserializeJson(resp) THEN Outcome(FALSE, prefs, cs, << >>, TRUE, TRUE)
    ELSE LET t == storeToken(resp, [prefs |-> prefs, writes |-> << >>])
             a == storeConfig(resp.doc, map, cs, t)
         IN Outcome(TRUE, a.prefs, readConfigFromPreferences(map, cs, a.prefs),
                    a.writes, TRUE, TRUE)

\* IotConfig::updateConfig() with the response resp of the server
updateConfig(begun, map, cs, prefs, resp) ==
    IF ~begun THEN Outcome(FALSE, prefs, cs, << >>, FALSE, FALSE)
    ELSE IF ~StatusOk(resp.status) THEN Outcome(FALSE, prefs, cs, << >>, TRUE, FALSE)
    ELSE IF ~deserializeJson(resp) THEN Outcome(FALSE, prefs, cs, << >>, TRUE, TRUE)
    ELSE LET a == storeConfig(resp.doc, map, cs, [prefs |-> prefs, writes |-> << >>])
             t == storeToken(resp, a)
         IN Outcome(TRUE, t.prefs, readConfigFromPreferences(map, cs, t.prefs),
                    t.writes, TRUE, TRUE)

\* ---------------------------------------------------------------------------
\* IotConfig: inputs, initial state and actions (SpecCfg)
\* ---------------------------------------------------------------------------
\* the applications: the config values they declare, in declaration order
Apps == { <<"A", "B", "C">>, <<"A", "A2", "B", "C">>, <<"A2", "A", "B", "C">> }

\* the cells the application assigns to in memory
SetCells == {"A", "B"}

\* values an application assigns to a config value in memory (set / operator=)
SetValues(T) ==
    CASE T = "int32" -> {9}
      [] T = "bool" -> {TRUE}
      [] T = "string" -> {"z"}

\* the fields a downloaded document may carry, at most one per name
Opt(key, S) == { << >> } \cup { << Field(key, v) >> : v \in S }

AllDocs ==
    { a \o b \o c \o u :
        a \in Opt("a", {JInt(1), JInt(2), JStr("x"), JFloat, JArray}),
        b \in Opt("b", {JStr("x"), JInt(1)}),
        c \in Opt("c", {JBool(TRUE), JInt(1)}),
        u \in Opt("unknown", {JInt(5)}) }

Docs == { d \in AllDocs : Len(d) <= MaxFields }

Response(status, json, doc, etag, date) ==
    [status |-> status, json |-> json, doc |-> doc, etag |-> etag, date |-> date]

\* what the server may answer: 200 with a document and possibly a new
\* freshness token, 200 with a body that is not JSON, 304 (IotApi::apiRequest
\* returns an empty body), 404, and a transport error (negative code)
Responses ==
    { Response(200, TRUE, d, t[1], t[2]) :
        d \in Docs, t \in { <<"", "">>, <<"v2", "d2">> } }
    \cup { Response(200, FALSE, << >>, "v2", "d2"),
           Response(304, FALSE, << >>, "v2", "d2"),
           Response(404, TRUE, << Field("a", JInt(2)) >>, "v2", "d2"),
           Response(-1, FALSE, << >>, "", "") }

NoPrefs == [k \in CfgNvsKeys |-> NoEntry]

\* the configuration namespace when the device boots: empty on a fresh
\* device, or what an earlier reconciliation left
CfgPrefsChoices ==
    { NoPrefs,
      [NoPrefs EXCEPT !["a"] = PrefPut("int32", 1),
                      !["a2"] = PrefPut("int32", 2),
                      !["nvB"] = PrefPut("string", "x"),
                      ![NvramEtagKey] = PrefPut("string", "v1"),
                      ![NvramDateKey] = PrefPut("string", "d1")] }

\* the cells before their constructors have run
NoCells == [id \in CellIds |-> CellDecl(id)]

NoOp == [op |-> "none", ret |-> FALSE, resp |-> Response(0, FALSE, << >>, "", ""),
         prefs |-> NoPrefs, cs |-> NoCells, writes |-> << >>,
         requested |-> FALSE, parsed |-> FALSE,
         request |-> RequestHeader(NoPrefs)]

CfgIdle ==
    /\ app = <<"A", "B", "C">>
    /\ made = 0
    /\ cfgBegun = FALSE
    /\ configMap = [k \in RegKeys |-> NoCell]
    /\ cfgCells = NoCells
    /\ cfgPrefs = NoPrefs
    /\ last = NoOp

\* ---------------------------------------------------------------------------
\* Device: initial state and actions
\* ---------------------------------------------------------------------------
\* Stand-alone persistent values: the cells of SpecPV. A cell is a value type
\* with the constructor arguments that are non-null.
Cell(T, section, key, rtcPtr) ==
    [T |-> T, section |-> section, key |-> key, rtcPtr |-> rtcPtr]

PVCells ==
    {Cell(T, TRUE, TRUE, FALSE) : T \in {"int32", "bool", "string"}}
    \cup {Cell(T, TRUE, TRUE, TRUE) : T \in {"int32", "bool"}}
    \cup {Cell(T, FALSE, FALSE, TRUE) : T \in {"int32", "bool"}}
    \cup {Cell(T, FALSE, FALSE, FALSE) : T \in {"int32", "string"}}
    \cup {Cell("int32", TRUE, FALSE, FALSE), Cell("int32", FALSE, TRUE, FALSE)}

Values(T) ==
    CASE T = "int32" -> {0, 1, 2}
      [] T = "bool" -> BOOLEAN
      [] T = "string" -> {"", "a", "b"}

\* what the firmware image holds for an RTC_DATA_ATTR variable of type T
RtcImage(T) ==
    CASE T = "int32" -> RtcImageValue
      [] T = "bool" -> FALSE
      [] T = "string" -> ""

\* what the member _value may hold before anything is assigned to it: a String
\* is default-constructed, an int32_t or bool is not initialized
Uninit(T) == IF T = "string" THEN {""} ELSE Values(T)

NoObject(T) ==
    [storageType |-> "NONE", section |-> FALSE, key |-> FALSE, rtcPtr |-> FALSE,
     T |-> T, value |-> RtcImage(T)]

NoExpect(T) ==
    [has |-> FALSE, v |-> RtcImage(T), tier |-> "NONE", afterReset |-> FALSE]

PVIdle ==
    /\ cell = Cell("int32", TRUE, TRUE, FALSE)
    /\ nvram = NoEntry
    /\ rtcmem = RtcImage("int32")
    /\ pv = NoObject("int32")
    /\ alive = FALSE
    /\ ops = << >>
    /\ expect = NoExpect("int32")
    /\ pristine = FALSE
    /\ nvramAtBoot = NoEntry

\* ---------------------------------------------------------------------------
\* class IotApi: tokens and the firmware update
\* ---------------------------------------------------------------------------
\* the keys of the NVRAM namespace "iot"
ApiKeys == {"provToken", "deviceToken", "firmwareEtag", "firmwareDate"}

\* Preferences::getString(key, "") / putString(key, value) on the namespace
PrefString(prefs, key) == PrefGet("string", prefs[key], "")
PutString(prefs, key, value) == [prefs EXCEPT ![key] = PrefPut("string", value)]

\* a is the IotApi object with the namespace: _provisioningToken,
\* _deviceToken, and the entries of the namespace
ApiState(provToken, devToken, prefs) ==
    [provisioningToken |-> provToken, deviceToken |-> devToken, prefs |-> prefs]

\* IotApi::IotApi()
IotApiCtor(prefs) == ApiState("", "", prefs)

\* IotApi::begin()
apiBegin(a) ==
    [a EXCEPT !.provisioningToken = PrefString(a.prefs, "provToken"),
              !.deviceToken = PrefString(a.prefs, "deviceToken")]

\* IotApi::setProvisioningToken(provisioningToken)
setProvisioningToken(a, t) ==
    IF a.provisioningToken = t THEN a
    ELSE [a EXCEPT !.provisioningToken = t,
                   !.prefs = PutString(a.prefs, "provToken", t)]

\* IotApi::setProvisioningTokenIfEmpty(provisioningToken)
setProvisioningTokenIfEmpty(a, t) ==
    IF a.provisioningToken # ""
    THEN [a |-> a, ret |-> FALSE]
    ELSE [a |-> setProvisioningToken(a, t), ret |-> TRUE]

\* IotApi::clearProvisioningToken()
clearProvisioningToken(a) == setProvisioningToken(a, "")

\* IotApi::setDeviceToken(deviceToken)
setDeviceToken(a, t) ==
    IF a.deviceToken = t THEN a
    ELSE [a EXCEPT !.deviceToken = t,
                   !.prefs = PutString(a.prefs, "deviceToken", t)]

\* IotApi::clearDeviceToken()
clearDeviceToken(a) == setDeviceToken(a, "")

\* a firmware image on the server with the validators the server sends
Image(etag, date) == [etag |-> etag, date |-> date]
NoImage == Image("", "")
Images == {Image("v1", "Mon"), Image("v2", "Tue")}

\* The server's answer to a conditional request for the image img: 304 when
\* the validators sent match it (If-None-Match before If-Modified-Since; an
\* empty header value is not sent), 200 otherwise
ConditionalStatus(img, sent) ==
    IF sent.etag # "" THEN (IF sent.etag = img.etag THEN 304 ELSE 200)
    ELSE IF sent.date # "" /\ sent.date = img.date THEN 304
    ELSE 200

\* an apiRequest that keeps the device token whatever the status
apiRequest_Keep(a, httpStatusCode) == a

\* IotApi::apiRequest: what the status does to the object
apiRequest(a, httpStatusCode) ==
    IF httpStatusCode = 403 THEN clearDeviceToken(a) ELSE a

\* IotApi::updateFirmware(apiPath, header): fault is a status the transport or
\* the server answers instead of the conditional one (0: none), otaOk whether
\* IotOtaInternal::updateFirmwareFromUrl succeeds; newEtag / newDate are what
\* it delivers with the image
updateFirmware(a, img, fault, otaOk) ==
    LET etag == PrefString(a.prefs, "firmwareEtag")
        date == PrefString(a.prefs, "firmwareDate")
        sent == Image(etag, date)
        httpStatusCode == IF fault = 0 THEN ConditionalStatus(img, sent) ELSE fault
        a1 == apiRequest(a, httpStatusCode)
        success == httpStatusCode = 200 /\ otaOk
    IN [a |-> IF success
              THEN [a1 EXCEPT !.prefs = PutString(PutString(a1.prefs, "firmwareEtag", etag),
                                                  "firmwareDate", date)]
              ELSE a1,
        ret |-> success,
        sent |-> sent,
        status |-> httpStatusCode,
        delivered |-> IF success THEN img ELSE NoImage]

\* the body of a provisioning response: "" (nothing), "text" (not JSON) or
\* "json" with the fields of the document
ProvisioningResponse(status, body, doc) == [status |-> status, body |-> body, doc |-> doc]

containsKey(doc, key) == \E i \in 1..Len(doc) : doc[i].key = key
asString(doc, key) == (CHOOSE f \in {doc[i] : i \in 1..Len(doc)} : f.key = key).value

\* IotApi::updateProvisioning after the test of the device token: the POST
\* and what is done with its answer
requestProvisioning(a, resp) ==
    LET httpStatusCode == resp.status
        response == IF httpStatusCode # 304 THEN resp.body ELSE ""
        a1 == apiRequest(a, httpStatusCode)
        failed == [a |-> a1, ret |-> FALSE, status |-> httpStatusCode]
    IN IF response = "" \/ httpStatusCode < 200 \/ httpStatusCode >= 400 THEN failed
       ELSE IF response # "json" THEN failed
       ELSE IF ~containsKey(resp.doc, "accessToken") THEN failed
       ELSE IF ~containsKey(resp.doc, "tokenType") THEN failed
       ELSE [a |-> setDeviceToken(a1, asString(resp.doc, "tokenType") \o " "
                                          \o asString(resp.doc, "accessToken")),
             ret |-> TRUE, status |-> httpStatusCode]

\* a provisioning that does not look at the device token
updateProvisioning_NoGuard(a, resp) == requestProvisioning(a, resp)

\* IotApi::updateProvisioning(apiPath): status 0 when no request was sent
updateProvisioning(a, resp) ==
    IF a.deviceToken # ""
    THEN [a |-> a, ret |-> FALSE, status |-> 0]
    ELSE requestProvisioning(a, resp)

\* the NVRAM namespaces as the firmware keys see them: "iot" is the namespace
\* of IotApi; nothing stores these keys in another namespace
Namespace(section, iot) == IF section = "iot" THEN iot ELSE [k \in ApiKeys |-> NoEntry]

\* IotConfig::getConfigString(key, defaultValue) on the namespace the
\* registry was begun with
getConfigString(nvs, key, defaultValue) == PrefGet("string", nvs[key], defaultValue)

\* IotApi::getFirmwareHttpEtag() / getFirmwareHttpDate()
getFirmwareHttp(nvramSection, iot) ==
    Image(getConfigString(Namespace(nvramSection, iot), "firmwareEtag", ""),
          getConfigString(Namespace(nvramSection, iot), "firmwareDate", ""))

\* Inputs of the API model
ProvTokenChoices == {"", "P1", "P2"}
DeviceTokenChoices == {"D1"}
FaultChoices == {0, 403, 500}

\* the namespaces IotConfig::begin may be called with: its default, and the
\* namespace of IotApi
ConfigSections == {"iot-cfg", "iot"}

TokenDoc == << Field("tokenType", "Bearer"), Field("accessToken", "T1") >>

ProvisioningResponses ==
    { ProvisioningResponse(st, "json", TokenDoc) : st \in {200, 302, 400, 403} }
    \cup { ProvisioningResponse(200, "", << >>),
           ProvisioningResponse(304, "", << >>),
           ProvisioningResponse(200, "text", << >>),
           ProvisioningResponse(200, "json", << Field("accessToken", "T1") >>),
           ProvisioningResponse(200, "json", << Field("tokenType", "Bearer") >>),
           ProvisioningResponse(-1, "", << >>) }

\* what the namespace may hold when the device boots
ApiPrefsChoices ==
    { [k \in ApiKeys |->
          CASE k = "provToken" -> p
            [] k = "firmwareEtag" -> f[1]
            [] k = "firmwareDate" -> f[2]
            [] OTHER -> NoEntry] :
        p \in {NoEntry, PrefPut("string", "P1")},
        f \in {<<NoEntry, NoEntry>>,
               <<PrefPut("string", "v1"), PrefPut("string", "Mon")>>} }

ApiCall(op, ret, t, r, before, heldBefore) ==
    [op |-> op, ret |-> ret, t |-> t, sent |-> r.sent, status |-> r.status,
     delivered |-> r.delivered, resp |-> r.resp,
     before |-> before, heldBefore |-> heldBefore]

\* the request a call made: validators sent, status (0: no request), image
\* delivered, and the answer of the provisioning endpoint
Request(sent, status, delivered, resp) ==
    [sent |-> sent, status |-> status, delivered |-> delivered, resp |-> resp]

NoRequest == Request(NoImage, 0, NoImage, ProvisioningResponse(0, "", << >>))

NoApiCall ==
    ApiCall("none", FALSE, "", NoRequest,
            IotApiCtor([k \in ApiKeys |-> NoEntry]), NoImage)

NoGot == [section |-> "", token |-> NoImage]

\* the API is not used: the state of the other specifications
ApiIdle ==
    /\ provisioningToken = ""
    /\ deviceToken = ""
    /\ apiPrefs = [k \in ApiKeys |-> NoEntry]
    /\ apiLoaded = FALSE
    /\ image = NoImage
    /\ held = NoImage
    /\ apiCall = NoApiCall
    /\ got = NoGot

\* ---------------------------------------------------------------------------
\* The main task and the SNTP task: polling loops, NTP time, NVRAM sessions
\* ---------------------------------------------------------------------------
\* unsigned long arithmetic of millis(), on MillisBits bits
MillisModulus == 2 ^ MillisBits

\* millis() - startTime
Elapsed(now_ms, startTime) == (now_ms - startTime) % MillisModulus

\* what millis() reads after delay(ms)
AfterDelay(now_ms, ms) == (now_ms + ms) % MillisModulus

\* the time the NTP server gives
ServerTime == ImplausibleTimeThreshold + 1000

\* Iot::isTimePlausible()
isTimePlausible(now) == now > ImplausibleTimeThreshold

\* a loop test without the timeout
KeepWaiting_NoTimeout(cond, elapsed, timeout_ms) == ~cond

\* while ( !cond && ((millis() - startTime) < timeout_ms) )
KeepWaiting(cond, elapsed, timeout_ms) == ~cond /\ elapsed < timeout_ms

\* a freshness test without the lower bound
NtpFresh_NoLowerBound(now, lastSync, resyncInterval_s) ==
    isTimePlausible(now) /\ now - lastSync < resyncInterval_s

\* Iot::syncNtpTime: isTimePlausible() && sinceLastSync_s >= 0 &&
\* sinceLastSync_s < _ntpResyncInterval_s
NtpFresh(now, lastSync, resyncInterval_s) ==
    LET sinceLastSync_s == now - lastSync
    IN isTimePlausible(now) /\ sinceLastSync_s >= 0 /\ sinceLastSync_s < resyncInterval_s

\* Iot::_ntpLastSyncTime(&rtcNtpLastSyncTime) followed by what Iot::begin does
\* to it
NtpLastSyncTimeCtor(rtcVal, isRtcAvailable) ==
    LET p == IotPersistentValue("int64", FALSE, FALSE, TRUE, 0, rtcVal, NoEntry)
    IN IF ~isRtcAvailable THEN setStorage(p, "NVRAM_IMPLICIT", rtcVal, NoEntry) ELSE p

\* an NVRAM session event of a task: Preferences::begin(section) / end()
Ev(e, section) == [e |-> e, section |-> section]
Session(section) == << Ev("begin", section), Ev("end", section) >>

\* a callback that stores the time in NVRAM whatever the storage type
ntpSyncCallback_Flash(p, now) ==
    [p |-> set(p, now).p, events |-> Session("iot")]

\* Iot::_ntpSyncCallback(tv): iot._ntpLastSyncTime = now, with the session
\* IotPersistentValue<T>::set opens for an NVRAM value
ntpSyncCallback(p, now) ==
    [p |-> set(p, now).p,
     events |-> IF set(p, now).nvWrite THEN Session("iot") ELSE << >>]

\* IotPersistentValue<T>::set(value) of a value of the application: sessions
persistentSetEvents(p, value) ==
    IF set(p, value).nvWrite THEN Session("app") ELSE << >>

\* IotApi::setDeviceToken(deviceToken): sessions
setDeviceTokenEvents(current, token) ==
    IF current = token THEN << >> ELSE Session("iot")

\* IotApi::apiRequest answered with httpStatusCode: the request and sessions
apiRequestEvents(current, httpStatusCode) ==
    << Ev("request", "") >>
    \o (IF httpStatusCode = 403 THEN setDeviceTokenEvents(current, "") ELSE << >>)

\* IotConfig::updateConfig(): sessions and the request in program order
updateConfigEvents(begun, current, httpStatusCode, json) ==
    IF ~begun THEN << >>
    ELSE Session("iot-cfg")
         \o apiRequestEvents(current, httpStatusCode)
         \o (IF ~StatusOk(httpStatusCode) THEN << >>
             ELSE IF ~json THEN << >>
             ELSE Session("iot-cfg"))

\* IotApi::updateFirmware(): sessions and the request in program order
updateFirmwareEvents(current, httpStatusCode, otaOk) ==
    Session("iot")
    \o apiRequestEvents(current, httpStatusCode)
    \o (IF httpStatusCode = 200 /\ otaOk THEN Session("iot") ELSE << >>)

\* the operations of the main task that use NVRAM, with their inputs
SessionOps ==
    { [op |-> "updateConfig", events |-> updateConfigEvents(b, t, st, j)] :
        b \in BOOLEAN, t \in {"", "D1"}, st \in {200, 304, 403}, j \in BOOLEAN }
    \cup { [op |-> "updateFirmware", events |-> updateFirmwareEvents(t, st, ok)] :
             t \in {"", "D1"}, st \in {200, 403}, ok \in BOOLEAN }
    \cup { [op |-> "setDeviceToken", events |-> setDeviceTokenEvents(t, "D1")] :
             t \in {"", "D1"} }
    \cup { [op |-> "IotPersistentValue::set",
            events |-> persistentSetEvents(
                           IotPersistentValue("int32", TRUE, TRUE, FALSE, 0, 0, NoEntry), 1)] }

\* the polling operations
PollingOps == {"connectWifi", "waitUntilTimePlausible", "waitUntilNtpSync", "syncNtpTime"}
TimeoutChoices == {0, 100}
StartMillisChoices == {1000, MillisModulus - 60}

\* time(nullptr) when the device boots: not set, or kept by the RTC
SysTimeChoices == {0, ServerTime}

\* rtcNtpLastSyncTime when the device boots: the image value, a sync one
\* resync interval ago and one second less, and a sync later than the clock
\* now says
LastSyncChoices ==
    {RtcImageValue, ServerTime - NtpResyncIntervalDefault,
     ServerTime - NtpResyncIntervalDefault + 1, ServerTime + 5}

\* the main task: the operation it is in, its position, the locals of the
\* polling loops, the events of a session operation still to come, and for
\* the firmware download the chunks still to come
Task(name, at, startTime, timeout_ms, completed, events, remaining, startedSync, entry) ==
    [op |-> name, pc |-> at, startTime |-> startTime, timeout_ms |-> timeout_ms,
     completed |-> completed, events |-> events, remaining |-> remaining,
     startedSync |-> startedSync, entry |-> entry]

Entry(now, lastSync) == [now |-> now, lastSync |-> lastSync]

NoTask == Task("none", "idle", 0, 0, FALSE, << >>, 0, FALSE, Entry(0, 0))

\* what the operation that returned last gave back, and what held then: what
\* it waited for, the time it took and what time(nullptr) read
Done(op, ret, cond, elapsed, now, t) ==
    [op |-> op, ret |-> ret, cond |-> cond, elapsed |-> elapsed, now |-> now,
     timeout_ms |-> t.timeout_ms, startedSync |-> t.startedSync, entry |-> t.entry]

NoDone == Done("none", FALSE, FALSE, 0, 0, NoTask)

Sntp(started, status) == [started |-> started, status |-> status]

\* the tasks are not modelled: the state of the other specifications
TaskIdle ==
    /\ task = NoTask
    /\ sessions = << >>
    /\ peakOpen = 0
    /\ sntp = Sntp(FALSE, "RESET")
    /\ sysTime = 0
    /\ ntpLastSyncTime = NtpLastSyncTimeCtor(RtcImageValue, TRUE)
    /\ done = NoDone
    /\ cbRan = FALSE

\* ---------------------------------------------------------------------------
\* class Iot and class IotLogger: panic, logging, clock, reset cause
\* ---------------------------------------------------------------------------
IOT_LOGLEVEL_ERROR == 0
IOT_LOGLEVEL_NOTSET == 5

\* one step of the clock between two calls of the application
Tick_ms == 1000

\* what the application may install with setPanicHandler: the default handler
\* again, a handler that returns, a handler that calls iot.shutdown(true)
HandlerChoices == {"default", "returns", "shutdown"}
LogLevelChoices == {IOT_LOGLEVEL_ERROR, IOT_LOGLEVEL_NOTSET}
BootMillisChoices == {25}
RunRawChoices == {0, 1550}
ResetReasons == {"POWERON", "DEEPSLEEP", "SW", "PANIC", "TASK_WDT", "BROWNOUT"}

\* the calls that leave the device: a request to the remote API
NetworkEvents == {"postLog"}

\* IotLogger::logv(level, tag, format, ap) with _logLevel = lvl: what it
\* calls, in order
logv(level, lvl, connected) ==
    IF level <= lvl
    THEN <<"log_printf">> \o (IF connected THEN <<"postLog">> ELSE << >>)
    ELSE << >>

\* a panic() that runs the handler before it logs
Iot_panic_HandlerFirst(lvl, connected) ==
    <<"handler">> \o logv(IOT_LOGLEVEL_ERROR, lvl, connected) \o <<"delay">>

\* Iot::panic(format...): what it calls, in order, up to the handler
Iot_panic(lvl, connected) ==
    logv(IOT_LOGLEVEL_ERROR, lvl, connected) \o <<"delay", "handler">>

\* a panicEarly() that logs through the logger as panic() does
Iot_panicEarly_ViaLogger(lvl, connected) == Iot_panic(lvl, connected)

\* Iot::panicEarly(format...): what it calls, in order, up to the handler
Iot_panicEarly(lvl, connected) == <<"log_e", "delay", "handler">>

\* Iot::setPanicHandler(panicHandler): the member afterwards, the value returned
setPanicHandler(old, new) == [handler |-> new, ret |-> old]

\* _panicHandler(): the memory afterwards and how the handler ended the boot
\* cycle, NoEnd when it returned
invokeHandler(h, m, init_s, factor, max_s) ==
    CASE h = "default" -> escalatingSleepPanicHandler(m, init_s, factor, max_s)
      [] h = "returns" -> [m |-> m, end |-> NoEnd]
      [] h = "shutdown" ->
            [m |-> shutdown(m, TRUE),
             end |-> EndBy("esp_deep_sleep_start", 0, TRUE, TRUE,
                           getPanicSleepDuration_s(m))]

\* deepSleep / restart / shutdown: what they call, in order; the assignments
\* to the persistent values come first, the hardware action last
EndEvents(action) ==
    IF action = "none" THEN << >>
    ELSE <<"record", "log_i", "delay", action>>

\* an active duration that is the clock reading, not the time since boot
ActiveDuration_Clock(now, bootTimestamp) == now

\* millis() - _bootTimestamp_ms
ActiveDuration(now, bootTimestamp) == now - bootTimestamp

\* _activeDuration_ms = v: the object and the RTC variable afterwards
AssignActiveDuration(a, rtcA, v) ==
    [p |-> set(a, v).p, rtc |-> RtcAfterSet(a, v, rtcA)]

\* the member _activeDuration_ms as the constructor binds it to its RTC variable
ActiveDurationCtor(rtcA) ==
    IotPersistentValue("int64", FALSE, FALSE, TRUE, 0, rtcA, NoEntry)

Call(op, events, returned, handler, ret) ==
    [op |-> op, events |-> events, returned |-> returned,
     handler |-> handler, ret |-> ret]

NoCall == Call("none", << >>, TRUE, "none", 0)

\* the services are not used: the state of the other specifications
RunIdle ==
    /\ resetReason = "POWERON"
    /\ panicHandler = "default"
    /\ handlerSet = "none"
    /\ wifi = FALSE
    /\ logLevel = IOT_LOGLEVEL_NOTSET
    /\ millis = 0
    /\ bootTimestamp_ms = 0
    /\ sinceBoot_ms = 0
    /\ activeDuration_ms = ActiveDurationCtor(RtcImageValue)
    /\ rtcActiveDuration_ms = RtcImageValue
    /\ adcReads = 0
    /\ call = NoCall

\* First boot of a device after power-on: RTC memory holds the values of the
\* firmware image, the constructor of the global Iot object has run.
DevInit ==
    LET m == IotCtor(RtcImageValue, RtcImageValue, RtcImageValue) IN
    /\ bootCount = m.bootCount
    /\ rtcBootCount = m.rtcBootCount
    /\ lastSleepDuration_s = m.lastSleepDuration_s
    /\ rtcLastSleepDuration_s = m.rtcLastSleepDuration_s
    /\ panicSleepDuration_s = m.panicSleepDuration_s
    /\ rtcPanicSleepDuration_s = m.rtcPanicSleepDuration_s
    /\ panicSleepDurationInit_s = PanicSleepInitDefault
    /\ panicSleepDurationMax_s = PanicSleepMaxDefault
    /\ panicSleepDurationFactor = PanicSleepFactorDefault
    /\ sleepDuration_s = SleepDurationDefault
    /\ batteryMin_mV = BatteryMinDefault
    /\ battery_mV = -1
    /\ pc = "constructed"
    /\ cycleEnd = NoEnd
    /\ telemetry = -1
    /\ apiBegun = FALSE
    /\ episode = << >>
    /\ boots = 1
    /\ retained = 1
    /\ flashForced = "no"

Init ==
    /\ DevInit
    /\ configNvram \in ConfigNvramChoices
    /\ PVIdle
    /\ CfgIdle
    /\ RunIdle
    /\ ApiIdle
    /\ TaskIdle

\* Wake-up by the sleep timer after esp_deep_sleep: RTC memory is retained
WakeFromDeepSleep ==
    /\ pc = "deep_sleep"
    /\ boots < MaxBoots
    /\ Apply(IotCtor(rtcBootCount, rtcLastSleepDuration_s, rtcPanicSleepDuration_s))
    /\ CtorDefaults
    /\ boots' = boots + 1
    /\ retained' = retained + 1
    /\ flashForced' = "no"
    /\ UNCHANGED <<configNvram, cycleEnd, telemetry, episode, pvVars, cfgVars, runVars, apiVars, taskVars>>

\* Boot after esp_restart: a reset reloads the RTC data of the firmware image
BootAfterRestart ==
    /\ pc = "restart"
    /\ boots < MaxBoots
    /\ Apply(IotCtor(RtcImageValue, RtcImageValue, RtcImageValue))
    /\ CtorDefaults
    /\ boots' = boots + 1
    /\ retained' = 1
    /\ flashForced' = IF flashForced = "written" THEN "written" ELSE "no"
    /\ UNCHANGED <<configNvram, cycleEnd, telemetry, episode, pvVars, cfgVars, runVars, apiVars, taskVars>>

\* Power-on or external reset while asleep or shut down: RTC data reloaded
PowerOnReset ==
    /\ pc \in {"deep_sleep", "shutdown"}
    /\ boots < MaxBoots
    /\ Apply(IotCtor(RtcImageValue, RtcImageValue, RtcImageValue))
    /\ CtorDefaults
    /\ boots' = boots + 1
    /\ retained' = 1
    /\ episode' = << >>
    /\ flashForced' = "no"
    /\ UNCHANGED <<configNvram, cycleEnd, telemetry, pvVars, cfgVars, runVars, apiVars, taskVars>>

\* Iot::begin(isRtcAvailable)
Begin(isRtcAvailable, raw) ==
    /\ pc = "constructed"
    /\ LET ps == IF ~isRtcAvailable
                 THEN setStorage(panicSleepDuration_s, "NVRAM_IMPLICIT",
                                 rtcPanicSleepDuration_s, NoEntry)
                 ELSE panicSleepDuration_s
           minmV == configReadFromNvram(batteryMin_mV, configNvram["batMinMv"])
           bat == getBatteryVoltage_mV(battery_mV, raw)
           gate == BatteryPin >= 0 /\ minmV > 0
           low == gate /\ bat.ret < minmV
           m0 == [Mem EXCEPT !.panicSleepDuration_s = ps]
       IN /\ panicSleepDurationInit_s' =
                 configReadFromNvram(panicSleepDurationInit_s, configNvram["panicSlpInit"])
          /\ panicSleepDurationMax_s' =
                 configReadFromNvram(panicSleepDurationMax_s, configNvram["panicSlpMax"])
          /\ panicSleepDurationFactor' =
                 configReadFromNvram(panicSleepDurationFactor, configNvram["panicSlpFac"])
          /\ sleepDuration_s' = configReadFromNvram(sleepDuration_s, configNvram["sleepFor"])
          /\ batteryMin_mV' = minmV
          /\ battery_mV' = IF gate THEN bat.cache ELSE battery_mV
          /\ IF low
             THEN /\ Apply(shutdown(m0, TRUE))
                  /\ pc' = "shutdown"
                  /\ apiBegun' = FALSE
                  /\ cycleEnd' = EndBy("esp_deep_sleep_start", 0, TRUE, FALSE,
                                        getPanicSleepDuration_s(m0))
             ELSE /\ Apply(m0)
                  /\ pc' = "begun"
                  /\ apiBegun' = TRUE
                  /\ UNCHANGED cycleEnd
    /\ flashForced' = IF isRtcAvailable THEN "no"
                      ELSE IF flashForced = "written" THEN "reloaded"
                      ELSE "forced"
    /\ UNCHANGED <<configNvram, telemetry, episode, boots, retained, pvVars, cfgVars, runVars, apiVars, taskVars>>

\* Iot::postSystemTelemetry(): the boot_count field of the posted document
PostSystemTelemetry(raw) ==
    /\ pc = "begun"
    /\ telemetry' = getBootCount(Mem)
    /\ battery_mV' = getBatteryVoltage_mV(battery_mV, raw).cache
    /\ UNCHANGED <<rtcBootCount, rtcLastSleepDuration_s, rtcPanicSleepDuration_s,
                   bootCount, lastSleepDuration_s, panicSleepDuration_s,
                   panicSleepDurationInit_s, panicSleepDurationMax_s,
                   panicSleepDurationFactor, sleepDuration_s, configNvram,
                   batteryMin_mV, pc, cycleEnd, apiBegun, episode, boots, retained,
                   flashForced,
                   pvVars, cfgVars, runVars, apiVars, taskVars>>

UnchangedConfig ==
    UNCHANGED <<panicSleepDurationInit_s, panicSleepDurationMax_s,
                panicSleepDurationFactor, sleepDuration_s, configNvram,
                batteryMin_mV, battery_mV, telemetry, apiBegun, boots, retained,
                pvVars, cfgVars, runVars, apiVars, taskVars>>

PcAfter(action) ==
    CASE action = "esp_restart" -> "restart"
      [] action = "esp_deep_sleep" -> "deep_sleep"
      [] action = "esp_deep_sleep_start" -> "shutdown"

\* Iot::panic / Iot::panicEarly with the default panic handler installed
Panic ==
    /\ pc \in Running
    /\ LET r == escalatingSleepPanicHandler(Mem, panicSleepDurationInit_s,
                                            panicSleepDurationFactor,
                                            panicSleepDurationMax_s)
       IN /\ Apply(r.m)
          /\ cycleEnd' = r.end
          /\ pc' = PcAfter(r.end.action)
    /\ episode' = Append(episode, rtcPanicSleepDuration_s')
    /\ flashForced' = IF flashForced \in {"forced", "reloaded"} THEN "written" ELSE "no"
    /\ UnchangedConfig

\* the application calls Iot::deepSleep(sleep_duration_s, panic)
DeepSleep(sleep_duration_s, panic) ==
    /\ pc \in Running
    /\ Apply(deepSleep(Mem, sleep_duration_s, panic))
    /\ cycleEnd' = EndBy("esp_deep_sleep", sleep_duration_s, panic, FALSE,
                        getPanicSleepDuration_s(Mem))
    /\ pc' = "deep_sleep"
    /\ episode' = IF panic THEN episode ELSE << >>
    /\ flashForced' = "no"
    /\ UnchangedConfig

\* the application calls Iot::restart(panic)
Restart(panic) ==
    /\ pc \in Running
    /\ Apply(restart(Mem, panic))
    /\ cycleEnd' = EndBy("esp_restart", 0, panic, FALSE, getPanicSleepDuration_s(Mem))
    /\ pc' = "restart"
    /\ episode' = IF panic THEN episode ELSE << >>
    /\ flashForced' = "no"
    /\ UnchangedConfig

\* the application calls Iot::shutdown(panic)
Shutdown(panic) ==
    /\ pc \in Running
    /\ Apply(shutdown(Mem, panic))
    /\ cycleEnd' = EndBy("esp_deep_sleep_start", 0, panic, FALSE,
                        getPanicSleepDuration_s(Mem))
    /\ pc' = "shutdown"
    /\ episode' = IF panic THEN episode ELSE << >>
    /\ flashForced' = "no"
    /\ UnchangedConfig

Next ==
    \/ WakeFromDeepSleep
    \/ BootAfterRestart
    \/ PowerOnReset
    \/ \E isRtcAvailable \in BOOLEAN, raw \in RawChoices : Begin(isRtcAvailable, raw)
    \/ \E raw \in RawChoices : PostSystemTelemetry(raw)
    \/ Panic
    \/ \E d \in SleepChoices \cup {sleepDuration_s}, panic \in BOOLEAN : DeepSleep(d, panic)
    \/ \E panic \in BOOLEAN : Restart(panic)
    \/ \E panic \in BOOLEAN : Shutdown(panic)

Spec == Init /\ [][Next]_vars

\* ---------------------------------------------------------------------------
\* Stand-alone persistent values: initial state and actions (SpecPV)
\* ---------------------------------------------------------------------------
InitPV ==
    /\ DevInit
    /\ configNvram = [k \in ConfigKeys |-> NoEntry]
    /\ cell \in PVCells
    /\ nvram \in {NoEntry} \cup {PrefPut(cell.T, v) : v \in Values(cell.T)}
    /\ rtcmem = RtcImage(cell.T)
    /\ pv = NoObject(cell.T)
    /\ alive = FALSE
    /\ ops = << >>
    /\ expect = NoExpect(cell.T)
    /\ pristine = FALSE
    /\ nvramAtBoot = nvram
    /\ CfgIdle
    /\ RunIdle
    /\ ApiIdle
    /\ TaskIdle

\* the constructor runs (start of a boot cycle); uninit is what _value holds
Construct(uninit) ==
    /\ ~alive
    /\ pv' = IotPersistentValue(cell.T, cell.section, cell.key, cell.rtcPtr,
                                uninit, rtcmem, nvram)
    /\ alive' = TRUE
    /\ ops' = << >>
    /\ pristine' = TRUE
    /\ nvramAtBoot' = nvram
    /\ UNCHANGED <<cell, nvram, rtcmem, expect, devVars, cfgVars, runVars, apiVars, taskVars>>

\* setStorage(storageType), as Iot::begin calls it to select the tier
SetStorage(storageType) ==
    /\ alive
    /\ pv' = setStorage(pv, storageType, rtcmem, nvram)
    /\ ops' = << >>
    /\ expect' = IF expect.afterReset THEN expect ELSE NoExpect(cell.T)
    /\ UNCHANGED <<cell, nvram, rtcmem, alive, pristine, nvramAtBoot, devVars, cfgVars, runVars, apiVars, taskVars>>

\* set(value) / operator=
Set(value) ==
    /\ alive
    /\ LET r == set(pv, value) IN
       /\ pv' = r.p
       /\ rtcmem' = IF r.rtcWrite THEN r.p.value ELSE rtcmem
       /\ nvram' = IF r.nvWrite THEN writeToNvram(r.p) ELSE nvram
       /\ ops' = (IF Len(ops) = 2 THEN Tail(ops) ELSE ops) \o
                 << [v |-> value, tier |-> pv.storageType,
                     cachedEq |-> (value = get(pv)),
                     nvWrite |-> r.nvWrite, rtcWrite |-> r.rtcWrite,
                     changed |-> (pv' # pv \/ nvram' # nvram \/ rtcmem' # rtcmem)] >>
       /\ expect' = [has |-> TRUE, v |-> value, tier |-> pv.storageType,
                     afterReset |-> FALSE]
    /\ pristine' = FALSE
    /\ UNCHANGED <<cell, alive, nvramAtBoot, devVars, cfgVars, runVars, apiVars, taskVars>>

\* the objects are gone after any reset; what the expectation of the last
\* set(v) becomes when the reset keeps (kept) or loses its backing store
AfterReset(kept) ==
    /\ alive' = FALSE
    /\ pv' = NoObject(cell.T)
    /\ ops' = << >>
    /\ pristine' = FALSE
    /\ nvramAtBoot' = nvram'
    /\ expect' = IF expect.has /\ kept
                 THEN [expect EXCEPT !.afterReset = TRUE]
                 ELSE NoExpect(cell.T)

\* deep sleep and timer wake-up: RTC RAM and NVRAM are retained
PVDeepSleepWake ==
    /\ alive
    /\ UNCHANGED <<cell, nvram, rtcmem, devVars, cfgVars, runVars, apiVars, taskVars>>
    /\ AfterReset(expect.tier \in {"RTC", "NVRAM_IMPLICIT"})

\* restart or power cycle: RTC RAM is reloaded from the image, NVRAM retained
PVReset ==
    /\ alive
    /\ rtcmem' = RtcImage(cell.T)
    /\ UNCHANGED <<cell, nvram, devVars, cfgVars, runVars, apiVars, taskVars>>
    /\ AfterReset(expect.tier = "NVRAM_IMPLICIT")

\* reset with the NVRAM erased: the key is gone, RTC RAM reloaded
PVResetErased ==
    /\ alive
    /\ rtcmem' = RtcImage(cell.T)
    /\ nvram' = NoEntry
    /\ UNCHANGED <<cell, devVars, cfgVars, runVars, apiVars, taskVars>>
    /\ AfterReset(FALSE)

NextPV ==
    \/ \E uninit \in Uninit(cell.T) : Construct(uninit)
    \/ \E st \in {"RTC", "NVRAM_IMPLICIT"} : SetStorage(st)
    \/ \E v \in Values(cell.T) : Set(v)
    \/ PVDeepSleepWake
    \/ PVReset
    \/ PVResetErased

SpecPV == InitPV /\ [][NextPV]_vars

\* ---------------------------------------------------------------------------
\* IotConfig: initial state and actions (SpecCfg)
\* ---------------------------------------------------------------------------
\* after IotConfig::IotConfig(): empty map, null section and keys
InitCfg ==
    /\ DevInit
    /\ configNvram = [k \in ConfigKeys |-> NoEntry]
    /\ PVIdle
    /\ RunIdle
    /\ ApiIdle
    /\ TaskIdle
    /\ app \in Apps
    /\ made = 0
    /\ cfgBegun = FALSE
    /\ configMap = [k \in RegKeys |-> NoCell]
    /\ cfgCells = NoCells
    /\ cfgPrefs \in CfgPrefsChoices
    /\ last = NoOp

\* the cells whose constructor has run
Made == {app[i] : i \in 1..made}

\* IotConfigValue<T>::IotConfigValue(config, value, config_key, nvram_key) of
\* the next declaration (static construction, before begin())
NewConfigValue ==
    /\ last.op = "none"
    /\ made < Len(app)
    /\ ~cfgBegun
    /\ LET id == app[made + 1] IN
       /\ cfgCells' = [cfgCells EXCEPT ![id] = CellDecl(id)]
       /\ configMap' = registerConfigValuePtr(configMap, CellDecl(id).config_key, id)
    /\ made' = made + 1
    /\ UNCHANGED <<app, cfgBegun, cfgPrefs, last, devVars, pvVars, runVars, apiVars, taskVars>>

\* IotConfig::begin()
ConfigBegin ==
    /\ last.op = "none"
    /\ made = Len(app)
    /\ ~cfgBegun
    /\ cfgBegun' = TRUE
    /\ cfgCells' = readConfigFromPreferences(configMap, cfgCells, cfgPrefs)
    /\ last' = [NoOp EXCEPT !.op = "begin", !.prefs = cfgPrefs, !.cs = cfgCells]
    /\ UNCHANGED <<app, made, configMap, cfgPrefs, devVars, pvVars, runVars, apiVars, taskVars>>

\* IotConfigValue<T>::set(value) / operator=, before or after begin()
ConfigValueSet(id, value) ==
    /\ last.op = "none"
    /\ id \in Made
    /\ cfgCells' = [cfgCells EXCEPT ![id].value = value]
    /\ UNCHANGED <<app, made, cfgBegun, configMap, cfgPrefs, last, devVars, pvVars, runVars, apiVars, taskVars>>

\* IotConfig::updateConfig() answered by resp
UpdateConfig(resp) ==
    /\ last.op = "none"
    /\ made = Len(app)
    /\ LET r == updateConfig(cfgBegun, configMap, cfgCells, cfgPrefs, resp) IN
       /\ cfgPrefs' = r.prefs
       /\ cfgCells' = r.cs
       /\ last' = [op |-> "updateConfig", ret |-> r.ret, resp |-> resp,
                   prefs |-> cfgPrefs, cs |-> cfgCells, writes |-> r.writes,
                   requested |-> r.requested, parsed |-> r.parsed,
                   request |-> RequestHeader(cfgPrefs)]
    /\ UNCHANGED <<app, made, cfgBegun, configMap, devVars, pvVars, runVars, apiVars, taskVars>>

\* reset of the device: the objects are constructed anew, NVRAM is kept
CfgReboot ==
    /\ last.op = "none"
    /\ cfgBegun
    /\ made' = 0
    /\ cfgBegun' = FALSE
    /\ configMap' = [k \in RegKeys |-> NoCell]
    /\ cfgCells' = NoCells
    /\ UNCHANGED <<app, cfgPrefs, last, devVars, pvVars, runVars, apiVars, taskVars>>

\* begin() or updateConfig() has returned and the application goes on: the
\* record of the call is dropped
Resume ==
    /\ last.op # "none"
    /\ last' = NoOp
    /\ UNCHANGED <<app, made, cfgBegun, configMap, cfgCells, cfgPrefs, devVars, pvVars, runVars, apiVars, taskVars>>

NextCfg ==
    \/ NewConfigValue
    \/ ConfigBegin
    \/ \E id \in SetCells : \E value \in SetValues(CellDecl(id).T) : ConfigValueSet(id, value)
    \/ \E resp \in Responses : UpdateConfig(resp)
    \/ CfgReboot
    \/ Resume

SpecCfg == InitCfg /\ [][NextCfg]_vars

\* ---------------------------------------------------------------------------
\* Services within a boot cycle: initial state and actions (SpecRun)
\* ---------------------------------------------------------------------------
MaxCycles == 2
MaxTicks == 1
MaxAdcReads == 2

CrashCauses == {"PANIC", "TASK_WDT", "BROWNOUT"}

\* the device variables no call within a boot cycle changes
devRest == <<panicSleepDurationInit_s, panicSleepDurationMax_s,
             panicSleepDurationFactor, sleepDuration_s, configNvram,
             batteryMin_mV, telemetry, apiBegun, boots, retained, flashForced>>

memVars == <<rtcBootCount, rtcLastSleepDuration_s, rtcPanicSleepDuration_s,
             bootCount, lastSleepDuration_s, panicSleepDuration_s>>

\* First boot after power-on with an empty configuration namespace
InitRun ==
    /\ DevInit
    /\ configNvram = [k \in ConfigKeys |-> NoEntry]
    /\ resetReason = "POWERON"
    /\ panicHandler = "default"
    /\ handlerSet = "none"
    /\ wifi = FALSE
    /\ logLevel = IOT_LOGLEVEL_NOTSET
    /\ millis \in BootMillisChoices
    /\ bootTimestamp_ms = millis
    /\ sinceBoot_ms = 0
    /\ activeDuration_ms = ActiveDurationCtor(RtcImageValue)
    /\ rtcActiveDuration_ms = RtcImageValue
    /\ adcReads = 0
    /\ call = NoCall
    /\ PVIdle
    /\ CfgIdle
    /\ ApiIdle
    /\ TaskIdle

\* Iot::Iot() and IotLogger::IotLogger() at a boot with the given reset reason
\* and RTC RAM content
RunCtor(reason, rtcB, rtcL, rtcP, rtcA) ==
    /\ boots < MaxCycles
    /\ Apply(IotCtor(rtcB, rtcL, rtcP))
    /\ CtorDefaults
    /\ boots' = boots + 1
    /\ resetReason' = reason
    /\ panicHandler' = "default"
    /\ handlerSet' = "none"
    /\ wifi' = FALSE
    /\ logLevel' = IOT_LOGLEVEL_NOTSET
    /\ millis' \in BootMillisChoices
    /\ bootTimestamp_ms' = millis'
    /\ sinceBoot_ms' = 0
    /\ activeDuration_ms' = ActiveDurationCtor(rtcA)
    /\ rtcActiveDuration_ms' = rtcA
    /\ adcReads' = 0
    /\ call' = NoCall
    /\ UNCHANGED <<configNvram, cycleEnd, telemetry, episode, flashForced,
                   pvVars, cfgVars, apiVars, taskVars>>

\* Wake-up by the sleep timer: RTC RAM is retained
RunWake ==
    /\ pc = "deep_sleep"
    /\ RunCtor("DEEPSLEEP", rtcBootCount, rtcLastSleepDuration_s,
               rtcPanicSleepDuration_s, rtcActiveDuration_ms)
    /\ retained' = retained + 1

\* Boot after esp_restart: RTC data reloaded from the image
RunRestarted ==
    /\ pc = "restart"
    /\ RunCtor("SW", RtcImageValue, RtcImageValue, RtcImageValue, RtcImageValue)
    /\ retained' = 1

\* Power-on while asleep or shut down
RunPowerOn ==
    /\ pc \in {"deep_sleep", "shutdown"}
    /\ RunCtor("POWERON", RtcImageValue, RtcImageValue, RtcImageValue, RtcImageValue)
    /\ retained' = 1

\* An exception, a watchdog timeout or a brownout resets the running device,
\* and it boots again
RunCrash(cause) ==
    /\ pc \in Running
    /\ RunCtor(cause, RtcImageValue, RtcImageValue, RtcImageValue, RtcImageValue)
    /\ retained' = 1

\* the application calls Iot::setPanicHandler(h)
SetPanicHandler(h) ==
    /\ pc \in Running
    /\ h # handlerSet
    /\ panicHandler' = setPanicHandler(panicHandler, h).handler
    /\ handlerSet' = h
    /\ call' = NoCall
    /\ UNCHANGED <<memVars, devRest, battery_mV, pc, cycleEnd, episode, resetReason,
                   wifi, logLevel, millis, bootTimestamp_ms, sinceBoot_ms,
                   activeDuration_ms, rtcActiveDuration_ms, adcReads,
                   pvVars, cfgVars, apiVars, taskVars>>

\* the application calls IotLogger::setLogLevel(level)
SetLogLevel(level) ==
    /\ pc \in Running
    /\ level # logLevel
    /\ logLevel' = level
    /\ call' = NoCall
    /\ UNCHANGED <<memVars, devRest, battery_mV, pc, cycleEnd, episode, resetReason,
                   panicHandler, handlerSet, wifi, millis, bootTimestamp_ms,
                   sinceBoot_ms, activeDuration_ms, rtcActiveDuration_ms, adcReads,
                   pvVars, cfgVars, apiVars, taskVars>>

\* WiFi connects or the connection is lost
WifiStatus(connected) ==
    /\ pc \in Running
    /\ connected # wifi
    /\ wifi' = connected
    /\ call' = NoCall
    /\ UNCHANGED <<memVars, devRest, battery_mV, pc, cycleEnd, episode, resetReason,
                   panicHandler, handlerSet, logLevel, millis, bootTimestamp_ms,
                   sinceBoot_ms, activeDuration_ms, rtcActiveDuration_ms, adcReads,
                   pvVars, cfgVars, apiVars, taskVars>>

\* time passes between two calls
Tick ==
    /\ pc \in Running
    /\ sinceBoot_ms < MaxTicks * Tick_ms
    /\ millis' = millis + Tick_ms
    /\ sinceBoot_ms' = sinceBoot_ms + Tick_ms
    /\ call' = NoCall
    /\ UNCHANGED <<memVars, devRest, battery_mV, pc, cycleEnd, episode, resetReason,
                   panicHandler, handlerSet, wifi, logLevel, bootTimestamp_ms,
                   activeDuration_ms, rtcActiveDuration_ms, adcReads,
                   pvVars, cfgVars, apiVars, taskVars>>

\* _activeDuration_ms = millis() - _bootTimestamp_ms, when the cycle ends
RecordActive(ended) ==
    LET r == AssignActiveDuration(activeDuration_ms, rtcActiveDuration_ms,
                                  ActiveDuration(millis, bootTimestamp_ms))
    IN /\ activeDuration_ms' = IF ended THEN r.p ELSE activeDuration_ms
       /\ rtcActiveDuration_ms' = IF ended THEN r.rtc ELSE rtcActiveDuration_ms

\* the rest of panic / panicEarly after their own logging: _panicHandler()
RunHandler(op, events) ==
    LET r == invokeHandler(panicHandler, Mem, panicSleepDurationInit_s,
                           panicSleepDurationFactor, panicSleepDurationMax_s)
        ended == r.end.action # "none"
    IN /\ Apply(r.m)
       /\ RecordActive(ended)
       /\ cycleEnd' = IF ended THEN r.end ELSE cycleEnd
       /\ pc' = IF ended THEN PcAfter(r.end.action) ELSE pc
       /\ call' = Call(op, events \o EndEvents(r.end.action), ~ended, panicHandler, 0)
       /\ episode' = IF panicHandler = "default"
                     THEN Append(episode, rtcPanicSleepDuration_s')
                     ELSE episode
       /\ UNCHANGED <<devRest, battery_mV, resetReason, panicHandler, handlerSet,
                      wifi, logLevel, millis, bootTimestamp_ms, sinceBoot_ms, adcReads,
                      pvVars, cfgVars, apiVars, taskVars>>

\* the application or the library calls Iot::panic(format...)
CallPanic ==
    /\ pc \in Running
    /\ RunHandler("panic", Iot_panic(logLevel, wifi))

\* the application or the library calls Iot::panicEarly(format...)
CallPanicEarly ==
    /\ pc \in Running
    /\ RunHandler("panicEarly", Iot_panicEarly(logLevel, wifi))

\* the application calls Iot::getBatteryVoltage_mV()
CallGetBatteryVoltage(raw) ==
    /\ pc \in Running
    /\ adcReads < MaxAdcReads
    /\ LET r == getBatteryVoltage_mV(battery_mV, raw)
       IN /\ battery_mV' = r.cache
          /\ adcReads' = IF r.adc THEN adcReads + 1 ELSE adcReads
          /\ call' = Call("getBatteryVoltage_mV",
                          IF r.adc THEN <<"analogReadMilliVolts">> ELSE << >>,
                          TRUE, "none", r.ret)
    /\ UNCHANGED <<memVars, devRest, pc, cycleEnd, episode, resetReason,
                   panicHandler, handlerSet, wifi, logLevel, millis, bootTimestamp_ms,
                   sinceBoot_ms, activeDuration_ms, rtcActiveDuration_ms,
                   pvVars, cfgVars, apiVars, taskVars>>

\* what deepSleep / restart / shutdown share when the application calls them
RunEnd(op, m, action, duration_s, panic) ==
    /\ Apply(m)
    /\ RecordActive(TRUE)
    /\ cycleEnd' = EndBy(action, duration_s, panic, FALSE, getPanicSleepDuration_s(Mem))
    /\ pc' = PcAfter(action)
    /\ call' = Call(op, EndEvents(action), FALSE, "none", 0)
    /\ episode' = IF panic THEN episode ELSE << >>
    /\ UNCHANGED <<devRest, battery_mV, resetReason, panicHandler, handlerSet,
                   wifi, logLevel, millis, bootTimestamp_ms, sinceBoot_ms, adcReads,
                   pvVars, cfgVars, apiVars, taskVars>>

\* the application calls Iot::deepSleep(sleep_duration_s, panic)
CallDeepSleep(sleep_duration_s, panic) ==
    /\ pc \in Running
    /\ RunEnd("deepSleep", deepSleep(Mem, sleep_duration_s, panic),
              "esp_deep_sleep", sleep_duration_s, panic)

\* the application calls Iot::restart(panic)
CallRestart(panic) ==
    /\ pc \in Running
    /\ RunEnd("restart", restart(Mem, panic), "esp_restart", 0, panic)

\* the application calls Iot::shutdown(panic)
CallShutdown(panic) ==
    /\ pc \in Running
    /\ RunEnd("shutdown", shutdown(Mem, panic), "esp_deep_sleep_start", 0, panic)

NextRun ==
    \/ RunWake
    \/ RunRestarted
    \/ RunPowerOn
    \/ \E cause \in CrashCauses : RunCrash(cause)
    \/ \E h \in HandlerChoices : SetPanicHandler(h)
    \/ \E level \in LogLevelChoices : SetLogLevel(level)
    \/ \E connected \in BOOLEAN : WifiStatus(connected)
    \/ Tick
    \/ CallPanic
    \/ CallPanicEarly
    \/ \E raw \in RunRawChoices : CallGetBatteryVoltage(raw)
    \/ \E d \in SleepChoices \cup {sleepDuration_s}, panic \in BOOLEAN : CallDeepSleep(d, panic)
    \/ \E panic \in BOOLEAN : CallRestart(panic)
    \/ \E panic \in BOOLEAN : CallShutdown(panic)

SpecRun == InitRun /\ [][NextRun]_vars

\* ---------------------------------------------------------------------------
\* API: initial state and actions (SpecApi)
\* ---------------------------------------------------------------------------
\* the IotApi object with the namespace, from the variables
Api == ApiState(provisioningToken, deviceToken, apiPrefs)

ApplyApi(a) ==
    /\ provisioningToken' = a.provisioningToken
    /\ deviceToken' = a.deviceToken
    /\ apiPrefs' = a.prefs

\* After construction of the global IotApi object at the first boot
InitApi ==
    /\ DevInit
    /\ configNvram = [k \in ConfigKeys |-> NoEntry]
    /\ PVIdle
    /\ CfgIdle
    /\ RunIdle
    /\ TaskIdle
    /\ provisioningToken = ""
    /\ deviceToken = ""
    /\ apiPrefs \in ApiPrefsChoices
    /\ apiLoaded = FALSE
    /\ image \in Images
    /\ held = NoImage
    /\ apiCall = NoApiCall
    /\ got = NoGot

\* The device boots again: IotApi::IotApi()
ApiBoot ==
    /\ ApplyApi(IotApiCtor(apiPrefs))
    /\ apiLoaded' = FALSE
    /\ apiCall' = NoApiCall
    /\ UNCHANGED <<image, held, devVars, pvVars, cfgVars, runVars, taskVars>>
    /\ got' = NoGot

\* Iot::begin() calls IotApi::begin()
ApiBegin ==
    /\ ~apiLoaded
    /\ ApplyApi(apiBegin(Api))
    /\ apiLoaded' = TRUE
    /\ apiCall' = NoApiCall
    /\ UNCHANGED <<image, held, devVars, pvVars, cfgVars, runVars, taskVars>>
    /\ got' = NoGot

\* the application calls IotApi::setProvisioningToken(t)
SetProvisioningToken(t) ==
    /\ ApplyApi(setProvisioningToken(Api, t))
    /\ apiCall' = ApiCall("setProvisioningToken", TRUE, t, NoRequest, Api, held)
    /\ UNCHANGED <<apiLoaded, image, held, devVars, pvVars, cfgVars, runVars, taskVars>>
    /\ got' = NoGot

\* the application calls IotApi::setProvisioningTokenIfEmpty(t)
SetProvisioningTokenIfEmpty(t) ==
    /\ LET r == setProvisioningTokenIfEmpty(Api, t)
       IN /\ ApplyApi(r.a)
          /\ apiCall' = ApiCall("setProvisioningTokenIfEmpty", r.ret, t, NoRequest,
                                Api, held)
    /\ UNCHANGED <<apiLoaded, image, held, devVars, pvVars, cfgVars, runVars, taskVars>>
    /\ got' = NoGot

\* the application calls IotApi::clearProvisioningToken()
ClearProvisioningToken ==
    /\ ApplyApi(clearProvisioningToken(Api))
    /\ apiCall' = ApiCall("clearProvisioningToken", TRUE, "", NoRequest, Api, held)
    /\ UNCHANGED <<apiLoaded, image, held, devVars, pvVars, cfgVars, runVars, taskVars>>
    /\ got' = NoGot

\* provisioning or the application calls IotApi::setDeviceToken(t)
SetDeviceToken(t) ==
    /\ ApplyApi(setDeviceToken(Api, t))
    /\ apiCall' = ApiCall("setDeviceToken", TRUE, t, NoRequest, Api, held)
    /\ UNCHANGED <<apiLoaded, image, held, devVars, pvVars, cfgVars, runVars, taskVars>>
    /\ got' = NoGot

\* the application calls IotApi::updateFirmware()
UpdateFirmware(fault, otaOk) ==
    /\ apiLoaded
    /\ LET r == updateFirmware(Api, image, fault, otaOk)
       IN /\ ApplyApi(r.a)
          /\ held' = IF r.ret THEN r.delivered ELSE held
          /\ apiCall' = ApiCall("updateFirmware", r.ret, "",
                                Request(r.sent, r.status, r.delivered, NoRequest.resp),
                                Api, held)
    /\ UNCHANGED <<apiLoaded, image, devVars, pvVars, cfgVars, runVars, taskVars>>
    /\ got' = NoGot

\* the application calls IotApi::updateProvisioning(); resp is the answer the
\* provisioning endpoint gives when asked
UpdateProvisioning(resp) ==
    /\ apiLoaded
    /\ LET r == updateProvisioning(Api, resp)
       IN /\ ApplyApi(r.a)
          /\ apiCall' = ApiCall("updateProvisioning", r.ret, "",
                                Request(NoImage, r.status, NoImage, resp), Api, held)
    /\ UNCHANGED <<apiLoaded, image, held, devVars, pvVars, cfgVars, runVars, taskVars>>
    /\ got' = NoGot

\* the application calls getFirmwareHttpEtag() and getFirmwareHttpDate();
\* nvramSection is the namespace IotConfig::begin was called with
GetFirmwareHttp(nvramSection) ==
    /\ apiLoaded
    /\ got' = [section |-> nvramSection, token |-> getFirmwareHttp(nvramSection, apiPrefs)]
    /\ apiCall' = NoApiCall
    /\ UNCHANGED <<provisioningToken, deviceToken, apiPrefs, apiLoaded, image, held,
                   devVars, pvVars, cfgVars, runVars, taskVars>>

\* a new firmware image is put on the server
Publish(img) ==
    /\ img # image
    /\ image' = img
    /\ apiCall' = NoApiCall
    /\ UNCHANGED <<provisioningToken, deviceToken, apiPrefs, apiLoaded, held,
                   devVars, pvVars, cfgVars, runVars, taskVars>>
    /\ got' = NoGot

NextApi ==
    \/ ApiBoot
    \/ ApiBegin
    \/ \E t \in ProvTokenChoices : SetProvisioningToken(t)
    \/ \E t \in ProvTokenChoices : SetProvisioningTokenIfEmpty(t)
    \/ ClearProvisioningToken
    \/ \E t \in DeviceTokenChoices : SetDeviceToken(t)
    \/ \E fault \in FaultChoices, otaOk \in BOOLEAN : UpdateFirmware(fault, otaOk)
    \/ \E resp \in ProvisioningResponses : UpdateProvisioning(resp)
    \/ \E nvramSection \in ConfigSections : GetFirmwareHttp(nvramSection)
    \/ \E img \in Images : Publish(img)

SpecApi == InitApi /\ [][NextApi]_vars

\* ---------------------------------------------------------------------------
\* Main task and SNTP task: initial state and actions (SpecTask)
\* ---------------------------------------------------------------------------
runRest == <<resetReason, panicHandler, handlerSet, logLevel, bootTimestamp_ms,
             sinceBoot_ms, activeDuration_ms, rtcActiveDuration_ms, adcReads, call>>

taskRest == <<devVars, pvVars, cfgVars, apiVars, runRest>>

InitTask ==
    /\ DevInit
    /\ configNvram = [k \in ConfigKeys |-> NoEntry]
    /\ PVIdle
    /\ CfgIdle
    /\ RunIdle
    /\ ApiIdle
    /\ task = NoTask
    /\ sessions = << >>
    /\ peakOpen = 0
    /\ sntp = Sntp(FALSE, "RESET")
    /\ sysTime \in SysTimeChoices
    /\ \E rtcVal \in LastSyncChoices, isRtcAvailable \in BOOLEAN :
           ntpLastSyncTime = NtpLastSyncTimeCtor(rtcVal, isRtcAvailable)
    /\ done = NoDone
    /\ cbRan = FALSE

\* the condition a polling loop tests: connectWifi reads WiFi.status(), the
\* time loops isTimePlausible(), waitUntilNtpSync its local variable
Cond(t) ==
    CASE t.op = "connectWifi" -> wifi
      [] t.op \in {"waitUntilTimePlausible", "syncNtpTime"} -> isTimePlausible(sysTime)
      [] t.op = "waitUntilNtpSync" -> t.completed

\* history: what the operation waits for, as it is in the world
Waited(op) ==
    CASE op = "connectWifi" -> wifi
      [] op \in {"waitUntilTimePlausible", "syncNtpTime"} -> isTimePlausible(sysTime)
      [] op = "waitUntilNtpSync" -> sntp.status = "COMPLETED"

\* a step of the main task that opens or closes no session, not the callback
Quiet ==
    /\ peakOpen' = Len(sessions)
    /\ cbRan' = FALSE
    /\ UNCHANGED <<sessions, ntpLastSyncTime, sysTime, taskRest>>

\* the WiFi connection comes or goes
WifiEvent(connected) ==
    /\ wifi # connected
    /\ wifi' = connected
    /\ done' = NoDone
    /\ Quiet
    /\ UNCHANGED <<task, sntp, millis>>

\* the SNTP task receives the answer of the server: the time is set, the sync
\* status is COMPLETED, the notification callback runs
SntpResponse ==
    /\ sntp.started
    /\ sntp.status # "COMPLETED"
    /\ sysTime' = ServerTime
    /\ sntp' = Sntp(TRUE, "COMPLETED")
    /\ LET r == ntpSyncCallback(ntpLastSyncTime, ServerTime)
       IN /\ ntpLastSyncTime' = r.p
          /\ peakOpen' = Len(sessions) + (IF r.events # << >> THEN 1 ELSE 0)
    /\ cbRan' = TRUE
    /\ done' = NoDone
    /\ UNCHANGED <<task, sessions, wifi, millis, taskRest>>

\* Iot::connectWifi(ssid, password, timeout_ms), called when millis() reads now_ms
CallConnectWifi(now_ms, timeout_ms) ==
    /\ task = NoTask
    /\ millis' = now_ms
    /\ LET t == Task("connectWifi", "wait", now_ms, timeout_ms, FALSE, << >>, 0, FALSE,
                     Entry(sysTime, get(ntpLastSyncTime)))
       IN IF wifi
          THEN task' = NoTask /\ done' = Done("connectWifi", TRUE, wifi, 0, sysTime, t)
          ELSE task' = t /\ done' = NoDone
    /\ Quiet
    /\ UNCHANGED <<wifi, sntp>>

\* Iot::waitUntilTimePlausible(timeout_ms)
CallWaitUntilTimePlausible(now_ms, timeout_ms) ==
    /\ task = NoTask
    /\ millis' = now_ms
    /\ task' = Task("waitUntilTimePlausible", "wait", now_ms, timeout_ms, FALSE, << >>, 0,
                    FALSE, Entry(sysTime, get(ntpLastSyncTime)))
    /\ done' = NoDone
    /\ Quiet
    /\ UNCHANGED <<wifi, sntp>>

\* Iot::waitUntilNtpSync(timeout_ms): completed is read before the loop
CallWaitUntilNtpSync(now_ms, timeout_ms) ==
    /\ task = NoTask
    /\ millis' = now_ms
    /\ task' = Task("waitUntilNtpSync", "wait", now_ms, timeout_ms,
                    sntp.status = "COMPLETED", << >>, 0, FALSE,
                    Entry(sysTime, get(ntpLastSyncTime)))
    /\ done' = NoDone
    /\ Quiet
    /\ UNCHANGED <<wifi, sntp>>

\* Iot::syncNtpTime(ntpServer1, ntpServer2, ntpServer3, timeout_ms) up to the
\* call of waitUntilTimePlausible
CallSyncNtpTime(now_ms, timeout_ms) ==
    /\ task = NoTask
    /\ millis' = now_ms
    /\ LET t == Task("syncNtpTime", "wait", now_ms, timeout_ms, FALSE, << >>, 0, TRUE,
                     Entry(sysTime, get(ntpLastSyncTime)))
       IN IF NtpFresh(sysTime, get(ntpLastSyncTime), NtpResyncIntervalDefault)
          THEN /\ task' = NoTask
               /\ done' = Done("syncNtpTime", TRUE, isTimePlausible(sysTime), 0, sysTime,
                               [t EXCEPT !.startedSync = FALSE])
               /\ UNCHANGED sntp
          ELSE /\ task' = t
               /\ done' = NoDone
               /\ sntp' = Sntp(TRUE, "RESET")
    /\ Quiet
    /\ UNCHANGED wifi

\* one turn of a polling loop: delay(50); the value waitUntilNtpSync reads in
\* the loop goes to a variable of the loop body and is dropped
Poll ==
    /\ task.pc = "wait"
    /\ KeepWaiting(Cond(task), Elapsed(millis, task.startTime), task.timeout_ms)
    /\ millis' = AfterDelay(millis, PollDelay_ms)
    /\ done' = NoDone
    /\ Quiet
    /\ UNCHANGED <<task, wifi, sntp>>

\* the loop test fails: the loop is left
LeaveLoop ==
    /\ task.pc = "wait"
    /\ ~KeepWaiting(Cond(task), Elapsed(millis, task.startTime), task.timeout_ms)
    /\ task' = [task EXCEPT !.pc = "check"]
    /\ done' = NoDone
    /\ Quiet
    /\ UNCHANGED <<wifi, sntp, millis>>

\* the test after the loop and the return
Return ==
    /\ task.pc = "check"
    /\ done' = Done(task.op, Cond(task), Waited(task.op),
                    Elapsed(millis, task.startTime), sysTime, task)
    /\ task' = NoTask
    /\ Quiet
    /\ UNCHANGED <<wifi, sntp, millis>>

\* IotOtaInternal::updateFirmwareFromUrl up to the download loop
CallUpdateFirmwareFromUrl(beginOk) ==
    /\ task = NoTask
    /\ LET t == Task("updateFirmwareFromUrl", "perform", millis, 0, FALSE, << >>,
                     ImageChunks, FALSE, Entry(sysTime, get(ntpLastSyncTime)))
       IN IF beginOk
          THEN task' = t /\ done' = NoDone
          ELSE task' = NoTask /\ done' = Done("updateFirmwareFromUrl", FALSE, FALSE, 0, sysTime, t)
    /\ Quiet
    /\ UNCHANGED <<wifi, sntp, millis>>

\* one esp_https_ota_perform: a chunk of the image is read (the last one ends
\* the loop with ESP_OK), or the read fails or times out
OtaPerform(read) ==
    /\ task.pc = "perform"
    /\ task' = IF ~read THEN [task EXCEPT !.pc = "failed"]
               ELSE IF task.remaining = 1
                    THEN [task EXCEPT !.pc = "finish", !.remaining = 0]
                    ELSE [task EXCEPT !.remaining = @ - 1]
    /\ done' = NoDone
    /\ Quiet
    /\ UNCHANGED <<wifi, sntp, millis>>

\* after the loop: complete data received, esp_https_ota_finish, return
OtaFinish(valid) ==
    /\ task.pc \in {"finish", "failed"}
    /\ done' = Done(task.op, task.pc = "finish" /\ valid, task.pc = "finish", 0, sysTime, task)
    /\ task' = NoTask
    /\ Quiet
    /\ UNCHANGED <<wifi, sntp, millis>>

\* the main task calls an operation that uses NVRAM
CallSessionOp(s) ==
    /\ task = NoTask
    /\ task' = Task(s.op, "events", millis, 0, FALSE, s.events, 0, FALSE,
                    Entry(sysTime, get(ntpLastSyncTime)))
    /\ done' = NoDone
    /\ Quiet
    /\ UNCHANGED <<wifi, sntp, millis>>

\* the next Preferences::begin, Preferences::end or request of the operation,
\* or its return
SessionStep ==
    /\ task.pc = "events"
    /\ IF task.events = << >>
       THEN /\ done' = Done(task.op, TRUE, sessions = << >>, 0, sysTime, task)
            /\ task' = NoTask
            /\ UNCHANGED sessions
       ELSE /\ done' = NoDone
            /\ task' = [task EXCEPT !.events = Tail(@)]
            /\ sessions' =
                  CASE Head(task.events).e = "begin" ->
                           Append(sessions, Head(task.events).section)
                    [] Head(task.events).e = "end" ->
                           SubSeq(sessions, 1, Len(sessions) - 1)
                    [] OTHER -> sessions
    /\ peakOpen' = Len(sessions')
    /\ cbRan' = FALSE
    /\ UNCHANGED <<ntpLastSyncTime, sysTime, wifi, sntp, millis, taskRest>>

\* the steps of the main task
MainStep ==
    \/ Poll
    \/ LeaveLoop
    \/ Return
    \/ \E read \in BOOLEAN : OtaPerform(read)
    \/ \E valid \in BOOLEAN : OtaFinish(valid)
    \/ SessionStep

NextTask ==
    \/ \E connected \in BOOLEAN : WifiEvent(connected)
    \/ SntpResponse
    \/ \E now_ms \in StartMillisChoices, timeout_ms \in TimeoutChoices :
           CallConnectWifi(now_ms, timeout_ms)
    \/ \E now_ms \in StartMillisChoices, timeout_ms \in TimeoutChoices :
           CallWaitUntilTimePlausible(now_ms, timeout_ms)
    \/ \E now_ms \in StartMillisChoices, timeout_ms \in TimeoutChoices :
           CallWaitUntilNtpSync(now_ms, timeout_ms)
    \/ \E now_ms \in StartMillisChoices, timeout_ms \in TimeoutChoices :
           CallSyncNtpTime(now_ms, timeout_ms)
    \/ \E beginOk \in BOOLEAN : CallUpdateFirmwareFromUrl(beginOk)
    \/ \E s \in SessionOps : CallSessionOp(s)
    \/ MainStep

SpecTask == InitTask /\ [][NextTask]_vars

\* the scheduler runs the main task whenever it can take a step
SpecTaskLive == SpecTask /\ WF_vars(MainStep)




\* ---------------------------------------------------------------------------
\* Claims about the escalating panic handler and the boot cycle (Spec)
\* ---------------------------------------------------------------------------
Min(a, b) == IF a <= b THEN a ELSE b

Ended == pc \notin Running

\* the panic handler has just run and ended the boot cycle
HandlerRan == Ended /\ cycleEnd.byHandler

panicsInEpisode == Len(episode)

\* C1: consecutive runs of the escalating panic handler, with no clean cycle
\* end between them, persist initial at the first failure of the episode and
\* min(previous * factor, max) at every later one (60, 120, 240, 480, 500,
\* 500, ... for initial = 60, factor = 2, max = 500).
C1_EscalationSequence ==
    HandlerRan =>
        rtcPanicSleepDuration_s =
            IF panicsInEpisode = 1
            THEN panicSleepDurationInit_s
            ELSE Min(episode[panicsInEpisode - 1] * panicSleepDurationFactor,
                     panicSleepDurationMax_s)

\* C2: a cycle end that is not flagged as panic leaves the persisted panic
\* sleep duration (cached value and RTC variable) at -1 whatever it was, and
\* the first panic of an episode stores initial.
C2_CleanEndResets ==
    /\ (Ended /\ ~cycleEnd.panic) =>
           /\ rtcPanicSleepDuration_s = -1
           /\ getPanicSleepDuration_s(Mem) = -1
    /\ (HandlerRan /\ panicsInEpisode = 1) =>
           rtcPanicSleepDuration_s = panicSleepDurationInit_s

\* C2 witness: a clean cycle end found the duration different from -1
C2_Witness ==
    /\ Ended /\ ~cycleEnd.panic /\ cycleEnd.action # "none"
    /\ cycleEnd.before # -1
    /\ rtcPanicSleepDuration_s = -1

\* C3: when the boot cycles keep ending in a panic, every panic after the
\* first of the episode ends in a deep sleep of at least initial seconds
\* (the device does not keep restarting immediately).
C3_NoHotLoop ==
    (HandlerRan /\ panicsInEpisode >= 2) =>
        /\ cycleEnd.action = "esp_deep_sleep"
        /\ cycleEnd.duration_s >= panicSleepDurationInit_s

\* C4: after every run of the escalating panic handler the persisted panic
\* sleep duration is at most the configured maximum.
C4_AtMostMax ==
    HandlerRan => rtcPanicSleepDuration_s <= panicSleepDurationMax_s

RECURSIVE DocumentedSleep(_)
DocumentedSleep(k) ==
    IF k <= 2 THEN panicSleepDurationInit_s
    ELSE Min(DocumentedSleep(k - 1) * panicSleepDurationFactor,
             panicSleepDurationMax_s)

\* C6: with the default parameters the first panic restarts the system, the
\* second panic of the episode sleeps for the initial duration (one minute),
\* and each further panic doubles the sleep up to the maximum (24 hours).
C6_DocumentedStrategy ==
    (/\ HandlerRan
     /\ panicSleepDurationInit_s = PanicSleepInitDefault
     /\ panicSleepDurationFactor = PanicSleepFactorDefault
     /\ panicSleepDurationMax_s = PanicSleepMaxDefault) =>
        IF panicsInEpisode = 1
        THEN cycleEnd.action = "esp_restart"
        ELSE /\ cycleEnd.action = "esp_deep_sleep"
             /\ cycleEnd.duration_s = DocumentedSleep(panicsInEpisode)

\* C7: on the first boot of a fresh device the boot counter is 1, the backoff
\* state is Normal (panic sleep duration < 0) and system telemetry carries
\* boot_count = 1.
C7_FreshBoot ==
    (boots = 1 /\ pc \in Running) =>
        /\ getBootCount(Mem) = 1
        /\ getPanicSleepDuration_s(Mem) < 0
        /\ (telemetry # -1 => telemetry = 1)

\* ---------------------------------------------------------------------------
\* Claims about IotPersistentValue (SpecPV)
\* ---------------------------------------------------------------------------
Flash == "NVRAM_IMPLICIT"

\* two set() calls in a row with the same value on a flash-tier value
TwiceInARow ==
    /\ Len(ops) = 2
    /\ ops[1].v = ops[2].v
    /\ ops[1].tier = Flash /\ ops[2].tier = Flash

Writes(i) == IF ops[i].nvWrite THEN 1 ELSE 0

\* C8 as claimed: on a flash-tier value, set(v) called twice in a row with the
\* same v performs exactly one write to the key-value store.
C8_ExactlyOneWrite ==
    TwiceInARow => Writes(1) + Writes(2) = 1

\* C8 amended: set(v) with v equal to the cached value writes nothing and
\* changes no state; so of two set(v) in a row the second never writes, and
\* the first writes exactly when v differs from the value cached before it
\* (at most one write, none when v was already cached).
C8_AtMostOneWrite ==
    /\ \A i \in 1..Len(ops) :
           ops[i].cachedEq =>
               (~ops[i].nvWrite /\ ~ops[i].rtcWrite /\ ~ops[i].changed)
    /\ TwiceInARow =>
           /\ ops[2].cachedEq
           /\ Writes(2) = 0
           /\ Writes(1) = (IF ops[1].cachedEq THEN 0 ELSE 1)

\* C8 witness: the first of two equal set(v) wrote, the second did not
C8_Witness ==
    /\ TwiceInARow
    /\ ops[1].nvWrite /\ ~ops[2].nvWrite /\ ~ops[2].changed
    /\ nvram = PrefPut(cell.T, ops[2].v)

\* C9: after set(v), a reset that keeps the backing store of the value's tier,
\* followed by construction and initialization to that tier, yields
\* get() = v, for every v, one equal to the previously cached value included.
C9_SetSurvivesReset ==
    (/\ alive /\ pristine
     /\ expect.has /\ expect.afterReset
     /\ expect.tier \in {"RTC", Flash}
     /\ pv.storageType = expect.tier) =>
        get(pv) = expect.v

\* the default of a value type
DefaultValue(T) ==
    CASE T = "int32" -> 0
      [] T = "bool" -> FALSE
      [] T = "string" -> ""

\* C10: initializing a flash-tier implicit value caches the value stored
\* under (section, key) when the key exists and the default of the type
\* otherwise, and writes nothing to the store.
C10_InitLoadsOrDefault ==
    (alive /\ pristine /\ pv.storageType = Flash) =>
        /\ nvram = nvramAtBoot
        /\ get(pv) = IF isKey(nvram)
                     THEN PrefGet(cell.T, nvram, DefaultValue(cell.T))
                     ELSE DefaultValue(cell.T)

\* a value constructed with neither an RTC pointer nor both a section and a key
Unbacked == ~cell.rtcPtr /\ ~(cell.section /\ cell.key)

\* C11: a persistent value with neither an RTC pointer nor both a section and
\* a key has storage tier "none": get() keeps returning the default of the
\* type, a set(v) is dropped (get() does not return v afterwards unless v is
\* the default), and no set() writes RTC memory or NVRAM.
C11_NoneTierDrops ==
    (alive /\ Unbacked) =>
        /\ pv.storageType = "NONE"
        /\ get(pv) = DefaultValue(cell.T)
        /\ nvram = nvramAtBoot
        /\ \A i \in 1..Len(ops) : ~ops[i].nvWrite /\ ~ops[i].rtcWrite

\* ---------------------------------------------------------------------------
\* Claims about forced flash storage (Spec)
\* ---------------------------------------------------------------------------
\* C12: once Iot::begin(false) has forced flash storage, the panic sleep
\* duration is backed by the flash tier, and a duration the panic handler
\* persists from then on is read back after the restart that follows (a reset
\* that reloads RTC memory) when begin(false) initializes the value again.
C12_ForcedFlashPersists ==
    /\ (flashForced \in {"forced", "reloaded"}) =>
           panicSleepDuration_s.storageType = Flash
    /\ (flashForced = "reloaded") =>
           getPanicSleepDuration_s(Mem) = episode[Len(episode)]

\* ---------------------------------------------------------------------------
\* Claims about the configuration registry (SpecCfg)
\* ---------------------------------------------------------------------------
\* updateConfig has just returned
Updated == last.op = "updateConfig"

\* updateConfig has just returned from a pass that reached the document
Reconciled == Updated /\ cfgBegun /\ last.resp.status = 200 /\ last.resp.json

\* the fields of the document of the last call
DocFields == {last.resp.doc[i] : i \in 1..Len(last.resp.doc)}

\* the wire type a cell of type T is declared for
WireType(T) ==
    CASE T = "int32" -> "int"
      [] T = "bool" -> "bool"
      [] T = "string" -> "string"

\* the cell registered for the name of a field, NoCell if there is none
CellOf(kv) ==
    IF \E id \in Registered(configMap) : cfgCells[id].config_key = kv.key
    THEN CHOOSE id \in Registered(configMap) : cfgCells[id].config_key = kv.key
    ELSE NoCell

\* fields of a registered name whose wire type is / is not the cell's type
Matching == {kv \in DocFields :
                CellOf(kv) # NoCell /\ kv.value.w = WireType(cfgCells[CellOf(kv)].T)}
Mismatched == {kv \in DocFields :
                CellOf(kv) # NoCell /\ kv.value.w # WireType(cfgCells[CellOf(kv)].T)}
Unknown == {kv \in DocFields : CellOf(kv) = NoCell}

\* the entry a matching field is to leave under the storage key of its cell
EntryOf(kv) == PrefPut(cfgCells[CellOf(kv)].T, Decoded(cfgCells[CellOf(kv)].T, kv.value))

\* a matching field has been applied: persisted under the storage key of its
\* cell and returned by get()
Applied(kv) ==
    /\ cfgPrefs[cfgCells[CellOf(kv)].nvram_key] = EntryOf(kv)
    /\ cfgGet(cfgCells[CellOf(kv)]) = Decoded(cfgCells[CellOf(kv)].T, kv.value)

\* a document without the fields in F
RECURSIVE DocWithout(_, _)
DocWithout(doc, F) ==
    IF doc = << >> THEN << >>
    ELSE IF Head(doc) \in F THEN DocWithout(Tail(doc), F)
    ELSE << Head(doc) >> \o DocWithout(Tail(doc), F)

\* what the last call would have done had the document not carried the
\* fields in F
PassWithout(F) ==
    updateConfig(cfgBegun, configMap, last.cs, last.prefs,
                 [last.resp EXCEPT !.doc = DocWithout(last.resp.doc, F)])

\* the fields in F had no effect on NVRAM or on any cell
NoEffect(F) ==
    /\ PassWithout(F).prefs = cfgPrefs
    /\ PassWithout(F).cs = cfgCells

\* the keys a pass wrote, as a set
Written == {last.writes[i] : i \in 1..Len(last.writes)}

C14_UnknownIgnored ==
    Reconciled =>
        /\ Written \subseteq
               {cfgCells[id].nvram_key : id \in Registered(configMap)}
               \cup {NvramEtagKey, NvramDateKey}
        /\ NoEffect(Unknown)
        /\ \A kv \in Matching : Applied(kv)

\* C14 witness: {a: int, b: string, unknown: 5} reconciled, a and b written
C14_Witness ==
    /\ Reconciled /\ last.ret
    /\ Len(last.resp.doc) = 3
    /\ \E kv \in Unknown : kv.key = "unknown"
    /\ \E kv \in Matching : kv.key = "a" /\ cfgCells[CellOf(kv)].nvram_key \in Written
    /\ \E kv \in Matching : kv.key = "b" /\ "nvB" \in Written

TokenKeys == {NvramEtagKey, NvramDateKey}

\* C15: when the registry was not initialized with begin(), or the request
\* ends with a transport error or a status outside 2xx, or the body does not
\* decode as JSON, updateConfig returns false, writes nothing, and NVRAM
\* (config values and freshness token) and the in-memory cell values are
\* those from before the call.
C15_FailureLeavesState ==
    (/\ Updated
     /\ \/ ~cfgBegun
        \/ last.resp.status < 200 \/ last.resp.status >= 300
        \/ ~last.resp.json) =>
        /\ ~last.ret
        /\ last.writes = << >>
        /\ cfgPrefs = last.prefs
        /\ cfgCells = last.cs

\* C15 witness: a 200 answer whose body is not JSON and which carries a new
\* etag, met with a cell changed in memory since it was loaded
C15_Witness ==
    /\ Updated /\ cfgBegun /\ ~last.ret
    /\ last.resp.status = 200 /\ ~last.resp.json /\ last.resp.etag = "v2"
    /\ cfgPrefs[NvramEtagKey] = PrefPut("string", "v1")
    /\ \E id \in Registered(configMap) :
          /\ isKey(cfgPrefs[cfgCells[id].nvram_key])
          /\ PrefPut(cfgCells[id].T, cfgGet(cfgCells[id])) # cfgPrefs[cfgCells[id].nvram_key]

\* C16: a conditional GET, sent with the stored etag as If-None-Match and the
\* stored date as If-Modified-Since, that is answered 304 makes updateConfig
\* return false without handing a body to the JSON decoder; NVRAM (config
\* values and freshness token) and the cells are as before.
C16_NotModified ==
    (Updated /\ cfgBegun /\ last.resp.status = 304) =>
        /\ last.requested
        /\ last.request.ifNoneMatch = PrefGet("string", last.prefs[NvramEtagKey], "")
        /\ last.request.ifModifiedSince = PrefGet("string", last.prefs[NvramDateKey], "")
        /\ ~last.ret
        /\ ~last.parsed
        /\ cfgPrefs = last.prefs
        /\ cfgCells = last.cs

\* C16 witness: 304 answered to a request that carried the stored etag v1
C16_Witness ==
    /\ Updated /\ cfgBegun /\ last.resp.status = 304
    /\ last.request.ifNoneMatch = "v1" /\ last.request.ifModifiedSince = "d1"
    /\ cfgPrefs[NvramEtagKey] = PrefPut("string", "v1")

\* C17: in a pass that returns true no config value is written after a key of
\* the freshness token (the token is written after all fields have been
\* processed), and a response carrying etag v2 leaves v2 and its date
\* persisted together with the values of the matching fields.
C17_TokenLast ==
    (Updated /\ last.ret) =>
        /\ \A i, j \in 1..Len(last.writes) :
               (i < j /\ last.writes[i] \in TokenKeys) => last.writes[j] \in TokenKeys
        /\ (last.resp.etag # "") =>
               /\ cfgPrefs[NvramEtagKey] = PrefPut("string", last.resp.etag)
               /\ NvramEtagKey \in Written
        /\ (last.resp.date # "") =>
               cfgPrefs[NvramDateKey] = PrefPut("string", last.resp.date)
        /\ (last.resp.etag = "" /\ last.resp.date = "") =>
               /\ cfgPrefs[NvramEtagKey] = last.prefs[NvramEtagKey]
               /\ cfgPrefs[NvramDateKey] = last.prefs[NvramDateKey]
        /\ \A kv \in Matching : cfgPrefs[cfgCells[CellOf(kv)].nvram_key] = EntryOf(kv)

\* C17 witness: etag v2 over the stored v1, written after a config value
C17_Witness ==
    /\ Updated /\ last.ret
    /\ last.prefs[NvramEtagKey] = PrefPut("string", "v1")
    /\ cfgPrefs[NvramEtagKey] = PrefPut("string", "v2")
    /\ Len(last.writes) >= 3
    /\ last.writes[1] \notin TokenKeys
    /\ last.writes[Len(last.writes)] = NvramDateKey

\* C18: after updateConfig has returned true, every registered cell whose
\* config key appeared in the document with the cell's type returns the
\* document's value from get(); the value is persisted under the storage key
\* of the cell and is what a read of that key yields.
C18_GetReturnsDocument ==
    (Updated /\ last.ret) =>
        \A kv \in Matching :
            LET c == cfgCells[CellOf(kv)] IN
            /\ cfgGet(c) = Decoded(c.T, kv.value)
            /\ isKey(cfgPrefs[c.nvram_key])
            /\ PrefGet(c.T, cfgPrefs[c.nvram_key], PrefDefault(c.T)) = Decoded(c.T, kv.value)

\* C18 witness: the cell of config key "b", stored under "nvB", returned
\* another value before the pass
C18_Witness ==
    /\ Updated /\ last.ret
    /\ \E kv \in Matching :
          /\ kv.key = "b"
          /\ cfgCells[CellOf(kv)].nvram_key # kv.key
          /\ cfgGet(last.cs[CellOf(kv)]) # kv.value.s
          /\ cfgGet(cfgCells[CellOf(kv)]) = kv.value.s

\* how often a pass wrote key k
WriteCount(k) == Cardinality({i \in 1..Len(last.writes) : last.writes[i] = k})

\* C19: in a pass of updateConfig a config value is written only under a
\* storage key that was absent or held an entry different from the decoded
\* value, and at most once; a document whose matching fields all equal the
\* persisted entries causes no config value write.
C19_WriteOnChange ==
    (Updated /\ last.ret) =>
        /\ \A k \in Written \ TokenKeys :
               /\ ~isKey(last.prefs[k]) \/ last.prefs[k] # cfgPrefs[k]
               /\ WriteCount(k) = 1
               /\ \E kv \in Matching :
                      cfgCells[CellOf(kv)].nvram_key = k /\ cfgPrefs[k] = EntryOf(kv)
        /\ (\A kv \in Matching : last.prefs[cfgCells[CellOf(kv)].nvram_key] = EntryOf(kv))
               => Written \subseteq TokenKeys

\* C19 witness: a document of two matching fields equal to the persisted
\* configuration was reconciled without a config value write
C19_Witness ==
    /\ Updated /\ last.ret
    /\ Cardinality(Matching) >= 2
    /\ \A kv \in Matching : last.prefs[cfgCells[CellOf(kv)].nvram_key] = EntryOf(kv)
    /\ Written \subseteq TokenKeys

\* the cell registered last under config key k among those constructed
LastMade(k) ==
    LET I == {i \in 1..made : CellDecl(app[i]).config_key = k} IN
    IF I = {} THEN NoCell
    ELSE app[CHOOSE i \in I : \A j \in I : j <= i]

\* a config load or a reconciliation pass has just run
Loaded == last.op = "begin" \/ (Updated /\ last.ret)

\* C20: the registry maps a config key to the cell registered last under it;
\* config load (begin) and reconciliation (updateConfig) make every cell of
\* the registry read its storage key and leave a cell whose registration
\* was overwritten exactly as it was.
C20_LastRegistrationWins ==
    /\ \A k \in RegKeys : configMap[k] = LastMade(k)
    /\ Loaded =>
           \A id \in Made :
               IF id = LastMade(CellDecl(id).config_key)
               THEN cfgGet(cfgCells[id]) =
                        PrefGet(cfgCells[id].T, cfgPrefs[cfgCells[id].nvram_key],
                                cfgGet(last.cs[id]))
               ELSE cfgCells[id] = last.cs[id]

\* C20 witness: two cells registered under "a"; a pass applied a field "a"
\* to the later one while the earlier one, whose own storage key holds a
\* value, kept the value of its constructor
C20_Witness ==
    /\ Updated /\ last.ret
    /\ \E id \in Made :
          /\ id # LastMade(CellDecl(id).config_key)
          /\ isKey(cfgPrefs[cfgCells[id].nvram_key])
          /\ cfgGet(cfgCells[id]) = CellDecl(id).value
    /\ \E kv \in Matching :
          /\ kv.key = "a"
          /\ cfgCells[CellOf(kv)].nvram_key \in Written
          /\ cfgGet(cfgCells[CellOf(kv)]) = kv.value.i

\* ---------------------------------------------------------------------------
\* Battery gate of begin()
\* ---------------------------------------------------------------------------
\* the step of begin() that loads a minimum of 3300 mV and measures 3100 mV
GateStep ==
    /\ pc = "constructed"
    /\ batteryMin_mV' = 3300
    /\ battery_mV' = 3100

\* the shutdown happened and neither api.setDeviceName nor api.begin was reached
ShutDownBeforeApi ==
    /\ pc' = "shutdown"
    /\ cycleEnd'.action = "esp_deep_sleep_start"
    /\ ~apiBegun'
    /\ telemetry' = telemetry

\* C21 as stated: with the minimum at 3300 mV a measured 3100 mV makes begin()
\* shut the device down with the panic flag cleared, so that the panic sleep
\* duration is reset to -1, before the API is invoked.
C21_NonPanicShutdown ==
    [][GateStep => /\ ShutDownBeforeApi
                   /\ ~cycleEnd'.panic
                   /\ getPanicSleepDuration_s(Mem)' = -1]_vars

\* C21 amended: with the minimum at 3300 mV a measured 3100 mV makes begin()
\* shut the device down with the panic flag set, so that the panic sleep
\* duration in memory and in RTC RAM stays what it was, before the API is
\* invoked.
C21_PanicShutdownBeforeApi ==
    [][GateStep => /\ ShutDownBeforeApi
                   /\ cycleEnd'.panic
                   /\ getPanicSleepDuration_s(Mem)' = getPanicSleepDuration_s(Mem)
                   /\ rtcPanicSleepDuration_s' = rtcPanicSleepDuration_s]_vars

\* begin() has tripped the gate in a cycle that started with a panic sleep
\* duration other than -1
C21_Witness ==
    /\ pc = "shutdown"
    /\ batteryMin_mV = 3300
    /\ battery_mV = 3100
    /\ ~apiBegun
    /\ cycleEnd.panic
    /\ cycleEnd.before # -1
    /\ getLastSleepDuration_s(Mem) = 0

\* ---------------------------------------------------------------------------
\* Boot counter
\* ---------------------------------------------------------------------------
\* C26: the boot counter changes only in the step that boots the device (the
\* constructor), where it goes up by one when RTC RAM was retained, and so it
\* reads n, in the object and in RTC RAM, after n boots in a row that
\* retained RTC RAM.
C26_BootCounter ==
    /\ [](getBootCount(Mem) = retained /\ rtcBootCount = retained)
    /\ [][/\ (getBootCount(Mem)' # getBootCount(Mem) \/ rtcBootCount' # rtcBootCount)
              => boots' = boots + 1
          /\ (boots' = boots + 1 /\ retained' = retained + 1)
              => getBootCount(Mem)' = getBootCount(Mem) + 1]_vars

\* the third boot in a row that found RTC RAM retained, telemetry posted
C26_Witness ==
    /\ retained = 3
    /\ pc = "begun"
    /\ getBootCount(Mem) = 3
    /\ telemetry = 3

\* ---------------------------------------------------------------------------
\* panic, panicEarly and the panic handler
\* ---------------------------------------------------------------------------
HardwareActions == {"esp_deep_sleep", "esp_restart", "esp_deep_sleep_start"}

\* the position of the first event e in the events of the last call, 0 if none
Pos(e) ==
    IF \E i \in 1..Len(call.events) : call.events[i] = e
    THEN CHOOSE i \in 1..Len(call.events) :
             /\ call.events[i] = e
             /\ \A j \in 1..(i - 1) : call.events[j] # e
    ELSE 0

\* the handler that is installed: the one last passed to setPanicHandler, the
\* default handler if there was no call
Installed == IF handlerSet = "none" THEN "default" ELSE handlerSet

\* C22: a call of panic() or panicEarly() does not return to its caller: it
\* ends the boot cycle by deep sleep, restart or shutdown, whichever handler
\* was installed with setPanicHandler.
C22_PanicNeverReturns ==
    call.op \in {"panic", "panicEarly"} =>
        /\ ~call.returned
        /\ pc \notin Running
        /\ cycleEnd.action \in HardwareActions
        /\ call.events[Len(call.events)] = cycleEnd.action

\* C23: panic() logs through the logger first, at error severity, which no
\* log level suppresses, and the logger posts the line to the API exactly when
\* WiFi is connected; only then it invokes the handler, once, and the handler
\* is the one last passed to setPanicHandler, the default handler if none was.
C23_LogThenHandler ==
    call.op = "panic" =>
        /\ Pos("log_printf") = 1
        /\ wifi => Pos("postLog") = 2
        /\ ~wifi => Pos("postLog") = 0
        /\ Pos("handler") > Pos("log_printf")
        /\ Pos("handler") > Pos("postLog")
        /\ Cardinality({i \in 1..Len(call.events) : call.events[i] = "handler"}) = 1
        /\ call.handler = Installed

\* panic() at log level ERROR with WiFi connected and a handler the
\* application installed in place of an earlier one
C23_Witness ==
    /\ call.op = "panic"
    /\ wifi
    /\ logLevel = IOT_LOGLEVEL_ERROR
    /\ handlerSet = "shutdown"
    /\ call.handler = "shutdown"
    /\ pc = "shutdown"

\* C24: between its call and the invocation of the handler panicEarly() makes
\* no request to the API: it writes to the serial log and waits.
C24_EarlyIsLocal ==
    call.op = "panicEarly" =>
        /\ Pos("handler") = 3
        /\ \A i \in 1..(Pos("handler") - 1) : call.events[i] \notin NetworkEvents
        /\ SubSeq(call.events, 1, 2) = <<"log_e", "delay">>
        /\ call.handler = Installed

\* panicEarly() while WiFi is connected, where panic() would post the line
C24_Witness ==
    /\ call.op = "panicEarly"
    /\ wifi
    /\ call.handler = "default"
    /\ cycleEnd.byHandler
    /\ pc = "restart"

\* ---------------------------------------------------------------------------
\* deepSleep, restart, shutdown: what they record
\* ---------------------------------------------------------------------------
\* C25: when deepSleep(d, p), restart(p) or shutdown(p) reaches its hardware
\* action, the last sleep duration is d for deepSleep and 0 for the other
\* two, and the active duration is the time since the constructor took the
\* boot timestamp, in the objects and in RTC RAM, for p true and p false.
C25_RecordsBeforeEnd ==
    call.op \in {"deepSleep", "restart", "shutdown"} =>
        LET d == IF call.op = "deepSleep" THEN cycleEnd.duration_s ELSE 0 IN
        /\ getLastSleepDuration_s(Mem) = d
        /\ rtcLastSleepDuration_s = d
        /\ get(activeDuration_ms) = sinceBoot_ms
        /\ rtcActiveDuration_ms = sinceBoot_ms
        /\ Pos("record") > 0
        /\ Pos("record") < Pos(cycleEnd.action)
        /\ Pos(cycleEnd.action) = Len(call.events)

\* deepSleep(10, true) one tick after a boot that found another active
\* duration and another last sleep duration in RTC RAM
C25_Witness ==
    /\ call.op = "deepSleep"
    /\ cycleEnd.panic
    /\ cycleEnd.duration_s = 10
    /\ sinceBoot_ms = Tick_ms
    /\ rtcActiveDuration_ms = Tick_ms
    /\ boots = 2
    /\ retained = 2

\* ---------------------------------------------------------------------------
\* Battery measurement
\* ---------------------------------------------------------------------------
\* C27: once the battery voltage has been measured in a boot cycle, a later
\* call of getBatteryVoltage_mV() reads the ADC no more and returns the cached
\* value, whatever that value is.
C27_MeasuredOnce ==
    [][(adcReads >= 1 /\ call'.op = "getBatteryVoltage_mV")
           => /\ adcReads' = adcReads
              /\ call'.ret = battery_mV
              /\ battery_mV' = battery_mV]_vars

\* ---------------------------------------------------------------------------
\* Reset cause
\* ---------------------------------------------------------------------------
\* C29: a boot whose reset cause is an exception, a watchdog timeout or a
\* brownout does not reach the running application: the constructor takes the
\* early-panic path, the default handler advances the panic sleep duration
\* and ends the boot cycle.
C29_CrashPanicsEarly ==
    resetReason \in CrashCauses =>
        /\ pc \notin Running
        /\ call.op = "panicEarly"
        /\ call.handler = "default"
        /\ cycleEnd.byHandler
        /\ episode # << >>

\* ---------------------------------------------------------------------------
\* C28: after a successful updateFirmware the freshness token stored in NVRAM
\* is the ETag / Last-Modified pair delivered with the downloaded image (so
\* the next conditional HEAD sends exactly those values), and the image a
\* successful update delivers is never the one the device already downloaded
\* ---------------------------------------------------------------------------
C28_StoresDeliveredPair ==
    (apiCall.op = "updateFirmware" /\ apiCall.ret) =>
        /\ PrefString(apiPrefs, "firmwareEtag") = apiCall.delivered.etag
        /\ PrefString(apiPrefs, "firmwareDate") = apiCall.delivered.date
        /\ apiCall.delivered # apiCall.heldBefore

\* ---------------------------------------------------------------------------
\* C30: setProvisioningTokenIfEmpty(t) never overwrites an existing non-empty
\* provisioning token: with a token set (in the object or in NVRAM) it
\* returns false and changes neither memory nor NVRAM; otherwise it stores t
\* in memory and NVRAM and returns true
\* ---------------------------------------------------------------------------
TokenExisted(a) ==
    a.provisioningToken # "" \/ PrefString(a.prefs, "provToken") # ""

C30_NeverOverwrites ==
    apiCall.op = "setProvisioningTokenIfEmpty" =>
        IF TokenExisted(apiCall.before)
        THEN ~apiCall.ret /\ Api = apiCall.before
        ELSE /\ apiCall.ret
             /\ provisioningToken = apiCall.t
             /\ PrefString(apiPrefs, "provToken") = apiCall.t

\* ---------------------------------------------------------------------------
\* C34: deepSleep, restart and shutdown called with panic = true leave the
\* persisted panic sleep duration as they found it, and the boot cycle that
\* follows the restart or the timed sleep observes that same duration
\* ---------------------------------------------------------------------------
\* the application itself called the ending operation with panic = true
EndsWithPanic == ~Ended /\ Ended' /\ cycleEnd'.panic /\ ~cycleEnd'.byHandler

BootsAfterPanicEnd ==
    /\ Ended /\ cycleEnd.panic /\ pc' = "constructed"
    /\ pc = "restart" \/ (pc = "deep_sleep" /\ retained' = retained + 1)

C34_PanicEndKeepsLevel ==
    [][ /\ EndsWithPanic => getPanicSleepDuration_s(Mem') = cycleEnd'.before
        /\ BootsAfterPanicEnd =>
              getPanicSleepDuration_s(Mem') = getPanicSleepDuration_s(Mem) ]_vars

\* ---------------------------------------------------------------------------
\* C35: a registered config value set in memory before begin() is replaced by
\* the persisted value when begin() loads the configuration if and only if
\* its storage key exists in the config namespace (otherwise it keeps the
\* value set); set() on a config value never writes NVRAM
\* ---------------------------------------------------------------------------
Persisted(id) == last.prefs[getNvramKey(CellDecl(id))]

BeginLoads ==
    last.op = "begin" =>
        \A id \in Registered(configMap) :
            cfgGet(cfgCells[id]) =
                IF isKey(Persisted(id))
                THEN PrefGet(CellDecl(id).T, Persisted(id), PrefDefault(CellDecl(id).T))
                ELSE cfgGet(last.cs[id])

SetStep == last.op = "none" /\ last' = last /\ cfgCells' # cfgCells

C35_BeginReplacesIffStored ==
    /\ []BeginLoads
    /\ [][SetStep => cfgPrefs' = cfgPrefs]_vars

C35_Witness ==
    /\ last.op = "begin"
    /\ \E id \in Registered(configMap) :
          /\ cfgGet(last.cs[id]) # cfgGet(CellDecl(id))
          /\ isKey(Persisted(id))
          /\ cfgGet(cfgCells[id]) # cfgGet(last.cs[id])

\* ---------------------------------------------------------------------------
\* C37: an API response with status 403 clears the device token in memory
\* and NVRAM, and an updateProvisioning() that finds the token cleared issues
\* a provisioning request; no other status code modifies the device token
\* (a provisioning that succeeds stores the token it was given)
\* ---------------------------------------------------------------------------
Requested == apiCall.op \in {"updateFirmware", "updateProvisioning"} /\ apiCall.status # 0

DeviceTokenKept ==
    /\ deviceToken = apiCall.before.deviceToken
    /\ apiPrefs["deviceToken"] = apiCall.before.prefs["deviceToken"]

C37_ForbiddenClearsToken ==
    /\ (Requested /\ apiCall.status = 403) =>
           deviceToken = "" /\ PrefString(apiPrefs, "deviceToken") = ""
    /\ (Requested /\ apiCall.status # 403 /\ ~(apiCall.op = "updateProvisioning" /\ apiCall.ret)) =>
           DeviceTokenKept
    /\ (apiCall.op = "updateProvisioning" /\ apiCall.before.deviceToken = "") =>
           apiCall.status # 0

C37_Witness ==
    /\ apiCall.op = "updateFirmware"
    /\ apiCall.status = 403
    /\ apiCall.before.deviceToken # ""
    /\ deviceToken = ""

\* ---------------------------------------------------------------------------
\* C38: updateProvisioning() sends no request and returns false when a device
\* token is already set; on every failure path (status outside 200..399,
\* empty response, body that is not JSON, accessToken or tokenType missing)
\* the device token in memory and NVRAM is unchanged; only a successful
\* response stores "<tokenType> <accessToken>" and returns true
\* ---------------------------------------------------------------------------
GoodAnswer(resp) ==
    /\ resp.status >= 200 /\ resp.status <= 399
    /\ resp.body = "json"
    /\ containsKey(resp.doc, "accessToken")
    /\ containsKey(resp.doc, "tokenType")

C38_ProvisioningStoresOnSuccess ==
    apiCall.op = "updateProvisioning" =>
        IF apiCall.before.deviceToken # ""
        THEN apiCall.status = 0 /\ ~apiCall.ret /\ Api = apiCall.before
        ELSE /\ apiCall.status # 0
             /\ IF GoodAnswer(apiCall.resp)
                THEN /\ apiCall.ret
                     /\ deviceToken = "Bearer T1"
                     /\ PrefString(apiPrefs, "deviceToken") = "Bearer T1"
                ELSE ~apiCall.ret /\ Api = apiCall.before

C38_Witness ==
    /\ apiCall.op = "updateProvisioning"
    /\ apiCall.ret
    /\ deviceToken = "Bearer T1"
    /\ apiCall.before.deviceToken = ""

\* ---------------------------------------------------------------------------
\* C39: getFirmwareHttpEtag() and getFirmwareHttpDate() return the freshness
\* token that updateFirmware last stored, for every namespace the config
\* registry was begun with
\* ---------------------------------------------------------------------------
C39_GettersReturnStored ==
    (got # NoGot /\ isKey(apiPrefs["firmwareEtag"])) =>
        got.token = Image(PrefString(apiPrefs, "firmwareEtag"),
                          PrefString(apiPrefs, "firmwareDate"))


\* ---------------------------------------------------------------------------
\* Main task and SNTP task (SpecTask, SpecTaskLive)
\* ---------------------------------------------------------------------------
\* waitUntilNtpSync is at the test of its loop or in the delay
WaitingForNtpSync == task.op = "waitUntilNtpSync" /\ task.pc = "wait"

\* C33: waitUntilNtpSync(timeout) returns true when the SNTP sync status is
\* COMPLETED at its return before the timeout has expired, and it waits no
\* longer once the status is COMPLETED: the clock does not advance in its
\* loop from then on.
C33_ReturnsWhenCompleted ==
    /\ [](done.op = "waitUntilNtpSync" /\ done.cond /\ done.elapsed < done.timeout_ms
            => done.ret)
    /\ [][(WaitingForNtpSync /\ sntp.status = "COMPLETED") => millis' = millis]_vars


\* the clock and the last recorded sync at the entry of the operation that
\* returned: the time is after 2009-12-22 and the sync is not later than
\* the clock and less than one resync interval old
FreshAtEntry ==
    /\ done.entry.now > ImplausibleTimeThreshold
    /\ done.entry.now - done.entry.lastSync >= 0
    /\ done.entry.now - done.entry.lastSync < NtpResyncIntervalDefault

\* C36: syncNtpTime() returns true without starting a synchronization exactly
\* when the time is plausible and the time since the last recorded sync lies
\* in [0, resync interval) at its entry; otherwise it starts a synchronization
\* and returns true iff the time is plausible when its wait has ended.
C36_SyncsUnlessFresh ==
    done.op = "syncNtpTime" =>
        IF FreshAtEntry
        THEN done.ret /\ ~done.startedSync
        ELSE /\ done.startedSync
             /\ sntp.started
             /\ done.ret <=> (done.now > ImplausibleTimeThreshold)

C36_Witness ==
    /\ done.op = "syncNtpTime"
    /\ FreshAtEntry
    /\ done.ret
    /\ ~done.startedSync


\* C31: at most one Preferences session is open at any time, the sessions of
\* the main task and of the SNTP callback counted together, and no session
\* is open when no operation of the library is running: every operation has
\* closed its sessions when it returns.
C31_OneSessionAtATime ==
    /\ peakOpen <= 1
    /\ Len(sessions) <= 1
    /\ task = NoTask => sessions = << >>

\* the SNTP callback has run while updateConfig or updateFirmware held a session
C31_Witness ==
    /\ cbRan
    /\ Len(sessions) = 1
    /\ task.op \in {"updateConfig", "updateFirmware"}

\* a polling loop or the download loop is running
InLoop == task.op \in PollingOps \cup {"updateFirmwareFromUrl"}

====
